---- MODULE Spec2Model ----
(***************************************************************************)
(* A model of the status-feed tracker: one FeedMonitor poll loop per       *)
(* configured provider (tracker/monitor.py), launched and cancelled by     *)
(* StatusTracker (tracker/main.py), sharing the module-level counter       *)
(* tracker.incident_count (tracker/__init__.py).                           *)
(*                                                                         *)
(* A poll loop suspends only while it awaits the HTTP response and while   *)
(* it sleeps, so the model has one action per resumption: everything the   *)
(* loop does between two suspension points is one atomic step.             *)
(*                                                                         *)
(* Durations are counted in quarters of a second, so that                  *)
(* base_backoff * 2 ** (exp - 1) is an integer for exp >= 0.               *)
(***************************************************************************)
EXTENDS Integers, Sequences, FiniteSets, TLC

(***************************************************************************)
(* Bounds of the model.                                                    *)
(***************************************************************************)
MaxEntries == 2        \* entries in one feed document
MaxErrors == 2         \* consecutive failed cycles explored
MaxCount == 3          \* value of tracker.incident_count explored
MaxHistorical == 1     \* largest configured settings.max_historical
MaxRetriesCfg == 1     \* largest settings.max_retries, outage apart
LargeRetries == 1030   \* settings.max_retries of the long outage
OutageErrors == 1025   \* consecutive failed cycles of the long outage
FnErrors == 10         \* small values of consecutive_errors given to
                       \* _backoff_delay
FnRetries == 6         \* small values of max_retries given to _backoff_delay
FnBackoff == 3         \* largest base_backoff given to _backoff_delay
MaxText == 4           \* characters of a text given to _strip_html
MaxPieces == 4         \* pieces of a text given to _parse_status
MaxItems == 2          \* list items of a text given to _parse_components
MaxElements == 2       \* entry and item elements of a document given to
                       \* parse_feed

(***************************************************************************)
(* Program constants.                                                      *)
(***************************************************************************)
PollInterval == 30     \* ProviderConfig.poll_interval default, seconds
BackoffCap == 300      \* cap of _backoff_delay, seconds
FloatMaxExp == 1024    \* an int of 2 ** 1024 or more does not convert to float

None == "None"         \* Python's None (Optional[str] fields)
NoneHash == [none |-> TRUE]   \* Python's None where a digest is expected

ProviderNames == {"OpenAI", "GitHub"}

(***************************************************************************)
(* Incidents.  An Incident carries the fields of models.Incident that the  *)
(* monitor reads and prints; a Component is a [name, status] record.       *)
(***************************************************************************)
Ids == {"a", "b", "c"}
Titles == {"t"}
Links == {"l"}
Updateds == {"u"}
Statuses == {"Investigating", "Resolved"}
Summaries == {"s"}
ComponentLists == {<< >>}

Incidents ==
  [id : Ids, title : Titles, link : Links, updated : Updateds,
   status : Statuses, summary : Summaries, components : ComponentLists]

Component(name, status) == [name |-> name, status |-> status]

RECURSIVE JoinNames(_)
JoinNames(cs) ==
  IF Len(cs) = 0 THEN ""
  ELSE IF Len(cs) = 1 THEN cs[1].name
  ELSE cs[1].name \o ", " \o JoinNames(Tail(cs))

\* Incident.product_names
product_names(inc) ==
  IF Len(inc.components) = 0 THEN "N/A" ELSE JoinNames(inc.components)

\* a fingerprint that leaves the status out
incident_hash_no_status(inc) ==
  [md5 |-> inc.summary \o "|" \o product_names(inc)]

\* a fingerprint that takes the title in
incident_hash_with_title(inc) ==
  [md5 |-> inc.title \o "|" \o inc.status \o "|" \o inc.summary \o "|"
             \o product_names(inc)]

\* FeedMonitor._incident_hash: the MD5 digest of "status|summary|names";
\* the digest is kept as the text it digests (no collisions)
incident_hash(inc) ==
  [md5 |-> inc.status \o "|" \o inc.summary \o "|" \o product_names(inc)]

(***************************************************************************)
(* Feed documents and HTTP responses.  A body is the response text: either *)
(* a well-formed document, given by the entries parse_feed finds in it, or *)
(* text that is not XML.                                                   *)
(***************************************************************************)
SeqsUpTo(S, n) == UNION {[1..k -> S] : k \in 0..n}

Document(entries) == [xml_ok |-> TRUE, entries |-> entries]
Malformed == [xml_ok |-> FALSE, entries |-> << >>]

Inc(id, status) ==
  [id |-> id, title |-> "t", link |-> "l", updated |-> "u",
   status |-> status, summary |-> "s", components |-> << >>]

ETags == {"e1", "e2"}
LastModifieds == {"m1"}

\* resp.headers restricted to the two headers _poll looks at
HeaderSets ==
  {h \in [{"ETag", "Last-Modified"} -> ETags \cup LastModifieds \cup {None}] :
     /\ h["ETag"] \in ETags \cup {None}
     /\ h["Last-Modified"] \in LastModifieds \cup {None}}

\* the headers of the cache environment: an ETag header may be empty
CacheHeaderSets ==
  {h \in [{"ETag", "Last-Modified"} -> {None, "", "e1", "e2", "m1", "m2"}] :
     /\ h["ETag"] \in {None, "", "e1", "e2"}
     /\ h["Last-Modified"] \in {None, "m1", "m2"}}

NoBody == Malformed
NoHeaders == [k \in {"ETag", "Last-Modified"} |-> None]

\* what session.get can deliver: a connection failure or timeout (status 0),
\* or a response with a status, headers and a body
NoResponse == [status |-> 0, headers |-> NoHeaders, body |-> NoBody]
StatusOnly(codes) == [status : codes, headers : {NoHeaders}, body : {NoBody}]
Ok(headerSets, bodies) ==
  [status : {200}, headers : headerSets, body : bodies]

(***************************************************************************)
(* The environments explored.  The fields of a monitor that the cache      *)
(* headers, the feed content and the failures act on do not read each      *)
(* other, so each environment varies one of them widely and the others     *)
(* narrowly:                                                               *)
(*   content   - every document of up to MaxEntries entries over two ids,  *)
(*               served without cache headers; the historical settings     *)
(*               vary;                                                     *)
(*   transport - every status, failure and cache-header combination, with  *)
(*               a malformed body, an empty document, a document with one  *)
(*               entry and one with a new entry before that entry updated; *)
(*               log level and max_retries vary; the operator may shut the *)
(*               tracker down;                                             *)
(*   example   - the two documents of the spec's scenario: two entries,    *)
(*               then the same two behind a new one;                       *)
(*   fields    - documents with one entry, of one id, whose title, link,   *)
(*               updated timestamp, summary and components (names, order   *)
(*               and component status) vary;                               *)
(*   outage    - an upstream that fails or answers 304, for up to          *)
(*               OutageErrors failed cycles in a row, with the default     *)
(*               base_backoff and a small or a large max_retries;          *)
(*   historical - documents of one, two and three entries with distinct    *)
(*               ids, in either order; show_historical and max_historical  *)
(*               vary, max_historical over every kind of int the           *)
(*               configuration file can give: negative, zero, less than,   *)
(*               equal to and more than the number of entries;             *)
(*   cache     - responses with status 200 or 300 and every combination of *)
(*               an ETag (absent, empty or one of two values) and a        *)
(*               Last-Modified (absent or one of two values), over one     *)
(*               document, the answer 304 with and without an ETag, the    *)
(*               answer 404 and the connection failure.                    *)
(* For two providers polled together:                                      *)
(*   pair         - each upstream fails or serves one incident in either   *)
(*                  status; the operator may shut the tracker down;        *)
(*   pair_outage  - the upstream of OpenAI fails every time, that of       *)
(*                  GitHub serves one document or answers 304; max_retries *)
(*                  is large.                                              *)
(***************************************************************************)
Scenarios ==
  {"content", "transport", "example", "fields", "outage", "historical",
   "cache"}
PairScenarios == {"pair", "pair_outage"}

ContentIds == {"a", "b"}

ContentBodies ==
  {Document(es) :
     es \in SeqsUpTo({i \in Incidents : i.id \in ContentIds}, MaxEntries)}

TransportBodies ==
  {Malformed, Document(<< >>), Document(<<Inc("a", "Investigating")>>),
   Document(<<Inc("b", "Investigating"), Inc("a", "Resolved")>>)}

ExampleBodies ==
  {Document(<<Inc("a", "Resolved"), Inc("b", "Investigating")>>),
   Document(<<Inc("c", "Investigating"), Inc("a", "Resolved"),
              Inc("b", "Investigating")>>)}

FieldComponentLists ==
  {<< >>,
   <<Component("API", "operational")>>,
   <<Component("API", "degraded_performance")>>,
   <<Component("API", "operational"), Component("Chat", "operational")>>,
   <<Component("Chat", "operational"), Component("API", "operational")>>}

FieldIncidents ==
  [id : {"a"}, title : {"t", "t2"}, link : {"l", "l2"},
   updated : {"u", "u2"}, status : {"Investigating"},
   summary : {"s", "s2"}, components : FieldComponentLists]

FieldBodies == {Document(<<i>>) : i \in FieldIncidents}

HistoricalBodies ==
  {Document(<<Inc("a", "Investigating")>>),
   Document(<<Inc("a", "Investigating"), Inc("b", "Investigating")>>),
   Document(<<Inc("b", "Investigating"), Inc("a", "Investigating")>>),
   Document(<<Inc("c", "Investigating"), Inc("b", "Investigating"),
              Inc("a", "Investigating")>>)}

CacheBodies == {Document(<<Inc("a", "Investigating")>>)}

\* the responses of the cache environment.  A status 300 is a response
\* aiohttp hands to _poll as it is: it follows a redirect for 301, 302, 303,
\* 307 and 308 only
CacheResponses ==
  {NoResponse} \cup StatusOnly({304, 404})
    \cup [status : {304},
          headers : {[NoHeaders EXCEPT !["ETag"] = "e2"]}, body : {NoBody}]
    \cup [status : {200, 300}, headers : CacheHeaderSets, body : CacheBodies]

PairBodies ==
  {Document(<<Inc("a", "Investigating")>>), Document(<<Inc("a", "Resolved")>>)}

Upstream(sc) ==
  IF sc = "content" THEN StatusOnly({304}) \cup Ok({NoHeaders}, ContentBodies)
  ELSE IF sc = "transport"
  THEN {NoResponse} \cup StatusOnly({304, 404, 503})
         \cup Ok(HeaderSets, TransportBodies)
  ELSE IF sc = "fields" THEN Ok({NoHeaders}, FieldBodies)
  ELSE IF sc = "outage" THEN {NoResponse} \cup StatusOnly({304})
  ELSE IF sc = "pair" THEN {NoResponse} \cup Ok({NoHeaders}, PairBodies)
  ELSE IF sc = "historical" THEN Ok({NoHeaders}, HistoricalBodies)
  ELSE IF sc = "cache" THEN CacheResponses
  ELSE Ok({NoHeaders}, ExampleBodies)

\* what the feed_url of provider p delivers
UpstreamOf(sc, p) ==
  IF sc = "pair_outage"
  THEN IF p = "OpenAI" THEN {NoResponse}
       ELSE StatusOnly({304})
              \cup Ok({NoHeaders}, {Document(<<Inc("a", "Investigating")>>)})
  ELSE Upstream(sc)

\* hashlib.sha256(body.encode()).hexdigest(), kept as the text it digests
content_hash(body) == [sha256 |-> body]

\* feed_parser.parse_feed: the incidents of a well-formed document, in
\* document order; ET.fromstring raises on anything else
parse_raises(body) == ~body.xml_ok
parse_feed(body) == body.entries

(***************************************************************************)
(* The notifier: each call is recorded as the line it writes.              *)
(***************************************************************************)
\* notifier.print_incident: the tag line depends on is_new only
print_incident(inc, is_new) ==
  [call |-> "print_incident", inc |-> inc, is_new |-> is_new,
   tag |-> IF is_new THEN "NEW INCIDENT" ELSE "INCIDENT UPDATE"]

print_historical_header(count) ==
  [call |-> "print_historical_header", count |-> count]

print_separator == [call |-> "print_separator"]
print_watching == [call |-> "print_watching"]
print_no_changes(name) == [call |-> "print_no_changes", provider |-> name]
print_error(name) == [call |-> "print_error", provider |-> name]

print_retry(name, attempt, wait) ==
  [call |-> "print_retry", provider |-> name, attempt |-> attempt,
   wait |-> wait]

(***************************************************************************)
(* Settings (models.TrackerSettings) explored.                             *)
(***************************************************************************)
SettingsOf(sc) ==
  IF sc = "content"
  THEN {st \in [log_level : {"INFO"}, max_retries : {MaxRetriesCfg},
                  base_backoff : {1}, show_historical : BOOLEAN,
                  max_historical : 0..MaxHistorical] :
          ~st.show_historical => st.max_historical = MaxHistorical}
  ELSE IF sc = "transport"
  THEN [log_level : {"INFO", "DEBUG"}, max_retries : 1..MaxRetriesCfg,
        base_backoff : {1}, show_historical : {TRUE},
        max_historical : {MaxHistorical}]
  ELSE IF sc = "outage"
  THEN [log_level : {"INFO"}, max_retries : {MaxRetriesCfg, LargeRetries},
        base_backoff : {2}, show_historical : {TRUE},
        max_historical : {10}]
  ELSE IF sc = "historical"
  THEN [log_level : {"INFO"}, max_retries : {MaxRetriesCfg},
        base_backoff : {1}, show_historical : BOOLEAN,
        max_historical : (-1)..(MaxHistorical + 1) \cup {10}]
  ELSE IF sc = "pair_outage"
  THEN [log_level : {"INFO"}, max_retries : {LargeRetries},
        base_backoff : {2}, show_historical : {TRUE},
        max_historical : {10}]
  ELSE [log_level : {"INFO"}, max_retries : {MaxRetriesCfg},
        base_backoff : {1}, show_historical : {TRUE},
        max_historical : {10}]

\* the number of consecutive failed cycles explored
ErrorsBound(sc) ==
  IF sc \in {"outage", "pair_outage", "backoff"} THEN OutageErrors
  ELSE MaxErrors

Min(a, b) == IF a < b THEN a ELSE b
Max(a, b) == IF a < b THEN b ELSE a

\* the Python slice incidents[:m]
SliceTo(incs, m) ==
  IF m >= 0 THEN SubSeq(incs, 1, Min(m, Len(incs)))
  ELSE SubSeq(incs, 1, Max(Len(incs) + m, 0))

RECURSIVE Pow2(_)
Pow2(n) == IF n = 0 THEN 1 ELSE 2 * Pow2(n - 1)

RECURSIVE Log2Floor(_)
Log2Floor(n) == IF n <= 1 THEN 0 ELSE 1 + Log2Floor(n \div 2)

\* an exponent that max_retries does not bound
backoff_exp_unbounded(st, errors) == errors

\* exp of _backoff_delay (monitor.py 189)
backoff_exp(st, errors) == Min(errors, st.max_retries)

\* base_delay * 0.5 (monitor.py 191) converts base_delay to a float.  For
\* exp >= 1 base_delay is the int base_backoff * 2 ** (exp - 1), of
\* unbounded size, and the conversion raises OverflowError when it is
\* 2 ** FloatMaxExp or more
backoff_raises(st, errors) ==
  /\ st.base_backoff >= 1
  /\ backoff_exp(st, errors) >= 1
  /\ backoff_exp(st, errors) - 1 + Log2Floor(st.base_backoff) >= FloatMaxExp

\* b doubled e times; the doubling stops once b is past the cap of the
\* delay, where min(.., 300.0) makes every larger value the same delay
RECURSIVE Doubled(_, _)
Doubled(b, e) ==
  IF e = 0 \/ b = 0 \/ b >= 4 * BackoffCap THEN b ELSE Doubled(2 * b, e - 1)

\* base_delay of _backoff_delay, in quarters of a second, where
\* _backoff_delay does not raise
base_delay4(st, errors) ==
  Doubled(2 * st.base_backoff, backoff_exp(st, errors))

\* the values random.uniform(0, base_delay * 0.5) is drawn from, on the
\* quarter-second grid; of the values that the cap turns into the same
\* delay only the largest is kept
Jitters4(st, errors) ==
  LET b == base_delay4(st, errors) IN
  {j \in 0..(b \div 2) : b + j <= 4 * BackoffCap \/ j = b \div 2}

\* _backoff_delay without the cap
backoff_delay4_uncapped(st, errors, jitter4) ==
  base_delay4(st, errors) + jitter4

\* FeedMonitor._backoff_delay, in quarters of a second
backoff_delay4(st, errors, jitter4) ==
  Min(base_delay4(st, errors) + jitter4, 4 * BackoffCap)

(***************************************************************************)
(* State.                                                                  *)
(***************************************************************************)
VARIABLES
  scenario,            \* the environment explored
  providers,           \* StatusTracker.providers: the configured providers
  settings,            \* the TrackerSettings shared by all monitors
  pc,                  \* where each monitor task is suspended
  sleep,               \* the asyncio.sleep a sleeping task is in
  cancel_req,          \* task.cancel() was called on the task
  request,             \* conditional headers of the request in flight
  etag,                \* FeedMonitor._etag
  last_modified,       \* FeedMonitor._last_modified
  last_hash,           \* FeedMonitor._last_hash
  seen_ids,            \* FeedMonitor._seen_ids
  seen_updates,        \* FeedMonitor._seen_updates, id -> fingerprint
  consecutive_errors,  \* FeedMonitor._consecutive_errors
  first_run,           \* FeedMonitor._first_run
  incident_count,      \* tracker.incident_count
  cyc,                 \* history: the response the cycle that just ended
                       \* got and what the cycle did
  had_parse,           \* history: an earlier cycle fetched and parsed
  new_count,           \* history: "new" events per incident id
  emitted,             \* history: new and updated events of all loops
  seeded,              \* history: incidents seeded by first-run cycles
  stored,              \* history: per id, the incident whose fingerprint
                       \* _seen_updates holds
  failed_cycles,       \* history: cycles in which _poll raised since the
                       \* last cycle in which it returned
  running,             \* history: calls of _poll begun and not yet over
  performed,           \* history: increments of tracker.incident_count
                       \* each loop has performed
  last_fp,             \* history: per id, the fingerprint last reported
                       \* (emitted or seeded) and the fingerprint of its
                       \* last entry in the last diffed document with it
  supplied,            \* history: the ETag and the Last-Modified of the
                       \* most recent response that carried one, among the
                       \* 2xx responses and among the responses that
                       \* raise_for_status lets through
  parser_call,         \* a call of a function of feed_parser: the function
                       \* and its arguments
  parser_ret           \* what the call returned, or that it raised

monitor_vars ==
  <<etag, last_modified, last_hash, seen_ids, seen_updates,
    consecutive_errors, first_run>>

history_vars ==
  <<cyc, had_parse, new_count, emitted, seeded, stored, failed_cycles,
    performed, supplied, last_fp>>

vars ==
  <<scenario, providers, settings, pc, sleep, cancel_req, request, etag, last_modified,
    last_hash, seen_ids, seen_updates, consecutive_errors, first_run,
    incident_count, cyc, had_parse, new_count, emitted, seeded, stored,
    failed_cycles, running, performed, supplied, last_fp, parser_call,
    parser_ret>>

parser_vars == <<parser_call, parser_ret>>

NoSleep == [kind |-> "none", quarters |-> 0]
NoRequest == [k \in {"If-None-Match", "If-Modified-Since"} |-> None]

NoCall == [fn |-> "none"]
NoReturn == [done |-> FALSE, raised |-> FALSE, value |-> << >>]

NoneReported ==
  [reported |-> [i \in Ids |-> NoneHash], diffed |-> [i \in Ids |-> NoneHash]]

NoneSupplied ==
  [etag |-> None, last_modified |-> None,
   ok_etag |-> None, ok_last_modified |-> None]

NoCycle ==
  [resp |-> NoResponse, outcome |-> "none", raised |-> FALSE,
   parsed |-> FALSE, incidents |-> << >>, out |-> << >>, events |-> << >>]

\* FeedMonitor.__init__ for every provider, and the module-level counter
InitWith(ps, scs) ==
  /\ scenario \in scs
  /\ providers = ps
  /\ settings \in SettingsOf(scenario)
  /\ pc = [p \in ProviderNames |-> IF p \in ps THEN "created" ELSE "absent"]
  /\ sleep = [p \in ProviderNames |-> NoSleep]
  /\ cancel_req = [p \in ProviderNames |-> FALSE]
  /\ request = [p \in ProviderNames |-> NoRequest]
  /\ etag = [p \in ProviderNames |-> None]
  /\ last_modified = [p \in ProviderNames |-> None]
  /\ last_hash = [p \in ProviderNames |-> NoneHash]
  /\ seen_ids = [p \in ProviderNames |-> {}]
  /\ seen_updates = [p \in ProviderNames |-> << >>]
  /\ consecutive_errors = [p \in ProviderNames |-> 0]
  /\ first_run = [p \in ProviderNames |-> TRUE]
  /\ incident_count = 0
  /\ cyc = [p \in ProviderNames |-> NoCycle]
  /\ had_parse = [p \in ProviderNames |-> FALSE]
  /\ new_count = [p \in ProviderNames |-> [i \in Ids |-> 0]]
  /\ emitted = 0
  /\ seeded = 0
  /\ stored = [p \in ProviderNames |-> << >>]
  /\ failed_cycles = [p \in ProviderNames |-> 0]
  /\ running = [p \in ProviderNames |-> 0]
  /\ performed = [p \in ProviderNames |-> 0]
  /\ supplied = [p \in ProviderNames |-> NoneSupplied]
  /\ last_fp = [p \in ProviderNames |-> NoneReported]
  /\ parser_call = NoCall
  /\ parser_ret = NoReturn

Init == InitWith({"OpenAI"}, Scenarios)

(***************************************************************************)
(* One poll cycle, FeedMonitor._poll, from the arrival of the response to  *)
(* its return or raise.  A cycle works on a record w holding the monitor's *)
(* fields, the counter and the record of what the cycle did.               *)
(***************************************************************************)
Say(w, line) == [w EXCEPT !.out = Append(@, line)]

\* truthiness of an Optional[str]
Truthy(s) == s # None /\ s # ""

\* the conditional headers _poll builds (monitor.py 100-106)
build_headers(e, lm) ==
  [k \in {"If-None-Match", "If-Modified-Since"} |->
     IF k = "If-None-Match" THEN (IF Truthy(e) THEN e ELSE None)
     ELSE (IF Truthy(lm) THEN lm ELSE None)]

\* monitor.py 124-127
store_headers(w, headers) ==
  [w EXCEPT !.etag = IF headers["ETag"] # None THEN headers["ETag"] ELSE @,
            !.last_modified = IF headers["Last-Modified"] # None
                              THEN headers["Last-Modified"] ELSE @]

\* a seeding that records the id without its fingerprint
seed_step_without_fingerprint(w, inc) ==
  [w EXCEPT !.seen_ids = @ \cup {inc.id},
            !.stored = (inc.id :> inc) @@ @,
            !.count = @ + 1,
            !.seeded = @ + 1]

\* the body of the seeding loop (monitor.py 157-159)
seed_step(w, inc) ==
  [w EXCEPT !.seen_ids = @ \cup {inc.id},
            !.seen_updates = (inc.id :> incident_hash(inc)) @@ @,
            !.stored = (inc.id :> inc) @@ @,
            !.count = @ + 1,
            !.seeded = @ + 1]

RECURSIVE seed_loop(_, _)
seed_loop(w, incs) ==
  IF Len(incs) = 0 THEN w
  ELSE seed_loop(seed_step(w, Head(incs)), Tail(incs))

RECURSIVE show_loop(_, _)
show_loop(w, incs) ==
  IF Len(incs) = 0 THEN w
  ELSE show_loop(Say(w, print_incident(Head(incs), FALSE)), Tail(incs))

\* the historical display (monitor.py 150-154)
show_historical(w, incs, st) ==
  IF st.show_historical
  THEN LET historical == SliceTo(incs, st.max_historical)
       IN  show_loop(Say(w, print_historical_header(Len(historical))),
                     historical)
  ELSE w

\* the first-run branch seeding only the incidents it displays
first_run_branch_seeds_shown(w, incs, st) ==
  LET w1 == [w EXCEPT !.first_run = FALSE, !.outcome = "first_run"]
      w2 == show_historical(w1, incs, st)
      w3 == seed_loop(w2, IF st.show_historical
                          THEN SliceTo(incs, st.max_historical) ELSE << >>)
  IN  Say(w3, print_watching)

\* the first-run branch (monitor.py 148-161)
first_run_branch(w, incs, st) ==
  LET w1 == [w EXCEPT !.first_run = FALSE, !.outcome = "first_run"]
      w2 == show_historical(w1, incs, st)
      w3 == seed_loop(w2, incs)
  IN  Say(w3, print_watching)

Event(inc, pos, is_new) ==
  [id |-> inc.id, hash |-> incident_hash(inc), pos |-> pos, is_new |-> is_new]

\* dict.get: the stored fingerprint, or None
Get(d, k) == IF k \in DOMAIN d THEN d[k] ELSE NoneHash

\* the diff loop body that reports a new incident without recording its id
diff_step_forgets_id(w, inc, pos) ==
  LET inc_hash == incident_hash(inc) IN
  IF inc.id \notin w.seen_ids
  THEN LET w1 == Say(Say(w, print_separator), print_incident(inc, TRUE))
       IN  [w1 EXCEPT !.count = @ + 1,
                      !.events = Append(@, Event(inc, pos, TRUE))]
  ELSE IF Get(w.seen_updates, inc.id) # inc_hash
  THEN LET w1 == Say(Say(w, print_separator), print_incident(inc, FALSE))
       IN  [w1 EXCEPT !.seen_updates = (inc.id :> inc_hash) @@ @,
                      !.stored = (inc.id :> inc) @@ @,
                      !.count = @ + 1,
                      !.events = Append(@, Event(inc, pos, FALSE))]
  ELSE w

\* the diff loop body that reports an update without counting it
diff_step_uncounted_update(w, inc, pos) ==
  LET inc_hash == incident_hash(inc) IN
  IF inc.id \notin w.seen_ids
  THEN LET w1 == Say(Say(w, print_separator), print_incident(inc, TRUE))
       IN  [w1 EXCEPT !.seen_ids = @ \cup {inc.id},
                      !.seen_updates = (inc.id :> inc_hash) @@ @,
                      !.stored = (inc.id :> inc) @@ @,
                      !.count = @ + 1,
                      !.events = Append(@, Event(inc, pos, TRUE))]
  ELSE IF Get(w.seen_updates, inc.id) # inc_hash
  THEN LET w1 == Say(Say(w, print_separator), print_incident(inc, FALSE))
       IN  [w1 EXCEPT !.seen_updates = (inc.id :> inc_hash) @@ @,
                      !.stored = (inc.id :> inc) @@ @,
                      !.events = Append(@, Event(inc, pos, FALSE))]
  ELSE w

\* the diff loop body that reports an update and keeps the old fingerprint
diff_step_update_not_stored(w, inc, pos) ==
  LET inc_hash == incident_hash(inc) IN
  IF inc.id \notin w.seen_ids
  THEN LET w1 == Say(Say(w, print_separator), print_incident(inc, TRUE))
       IN  [w1 EXCEPT !.seen_ids = @ \cup {inc.id},
                      !.seen_updates = (inc.id :> inc_hash) @@ @,
                      !.stored = (inc.id :> inc) @@ @,
                      !.count = @ + 1,
                      !.events = Append(@, Event(inc, pos, TRUE))]
  ELSE IF Get(w.seen_updates, inc.id) # inc_hash
  THEN LET w1 == Say(Say(w, print_separator), print_incident(inc, FALSE))
       IN  [w1 EXCEPT !.count = @ + 1,
                      !.events = Append(@, Event(inc, pos, FALSE))]
  ELSE w

\* the body of the diff loop (monitor.py 165-180) for the entry at pos
diff_step(w, inc, pos) ==
  LET inc_hash == incident_hash(inc) IN
  IF inc.id \notin w.seen_ids
  THEN LET w1 == Say(Say(w, print_separator), print_incident(inc, TRUE))
       IN  [w1 EXCEPT !.seen_ids = @ \cup {inc.id},
                      !.seen_updates = (inc.id :> inc_hash) @@ @,
                      !.stored = (inc.id :> inc) @@ @,
                      !.count = @ + 1,
                      !.events = Append(@, Event(inc, pos, TRUE))]
  ELSE IF Get(w.seen_updates, inc.id) # inc_hash
  THEN LET w1 == Say(Say(w, print_separator), print_incident(inc, FALSE))
       IN  [w1 EXCEPT !.seen_updates = (inc.id :> inc_hash) @@ @,
                      !.stored = (inc.id :> inc) @@ @,
                      !.count = @ + 1,
                      !.events = Append(@, Event(inc, pos, FALSE))]
  ELSE w

RECURSIVE diff_loop(_, _, _)
diff_loop(w, incs, pos) ==
  IF pos > Len(incs) THEN w
  ELSE diff_loop(diff_step(w, incs[pos], pos), incs, pos + 1)

\* monitor.py 144-180: what _poll does with the parsed incidents
process(w, incs, st) ==
  IF Len(incs) = 0 THEN [w EXCEPT !.outcome = "empty"]
  ELSE IF w.first_run THEN first_run_branch(w, incs, st)
  ELSE diff_loop([w EXCEPT !.outcome = "diff"], incs, 1)

\* check_and_parse without the comparison with the stored hash
check_and_parse_always_parses(w, body, st, name) ==
  LET w1 == [w EXCEPT !.last_hash = content_hash(body)]
  IN  IF parse_raises(body)
      THEN [w1 EXCEPT !.raised = TRUE, !.outcome = "parse_error"]
      ELSE process([w1 EXCEPT !.parsed = TRUE,
                              !.incidents = parse_feed(body)],
                   parse_feed(body), st)

\* monitor.py 130-142: content hash check, then parse
check_and_parse(w, body, st, name) ==
  LET h == content_hash(body) IN
  IF h = w.last_hash
  THEN LET w1 == [w EXCEPT !.outcome = "unchanged"]
       IN  IF st.log_level = "DEBUG" THEN Say(w1, print_no_changes(name))
           ELSE w1
  ELSE LET w1 == [w EXCEPT !.last_hash = h]
       IN  IF parse_raises(body)
           THEN [w1 EXCEPT !.raised = TRUE, !.outcome = "parse_error"]
           ELSE process([w1 EXCEPT !.parsed = TRUE,
                                   !.incidents = parse_feed(body)],
                        parse_feed(body), st)

\* FeedMonitor._poll from the response on (monitor.py 113-180)
poll(w, r, st, name) ==
  IF r.status = 0
  THEN [w EXCEPT !.raised = TRUE, !.outcome = "fetch_error"]
  ELSE IF r.status = 304
  THEN LET w1 == [w EXCEPT !.outcome = "not_modified"]
       IN  IF st.log_level = "DEBUG" THEN Say(w1, print_no_changes(name))
           ELSE w1
  ELSE IF r.status >= 400
  THEN [w EXCEPT !.raised = TRUE, !.outcome = "fetch_error"]
  ELSE check_and_parse(store_headers(w, r.headers), r.body, st, name)

(***************************************************************************)
(* The poll loop, FeedMonitor.start, and the orchestrator.                 *)
(***************************************************************************)
\* a cycle that counts on from the loop's own increments instead of the
\* shared counter
Cycle_counts_alone(p) ==
  [etag |-> etag[p], last_modified |-> last_modified[p],
   last_hash |-> last_hash[p], seen_ids |-> seen_ids[p],
   seen_updates |-> seen_updates[p], first_run |-> first_run[p],
   count |-> performed[p], seeded |-> 0, stored |-> stored[p],
   resp |-> NoResponse,
   outcome |-> "none", raised |-> FALSE, parsed |-> FALSE,
   incidents |-> << >>, out |-> << >>, events |-> << >>]

\* the monitor and the counter as a cycle finds them
Cycle(p) ==
  [etag |-> etag[p], last_modified |-> last_modified[p],
   last_hash |-> last_hash[p], seen_ids |-> seen_ids[p],
   seen_updates |-> seen_updates[p], first_run |-> first_run[p],
   count |-> incident_count, seeded |-> 0, stored |-> stored[p],
   resp |-> NoResponse,
   outcome |-> "none", raised |-> FALSE, parsed |-> FALSE,
   incidents |-> << >>, out |-> << >>, events |-> << >>]

CycleRecord(w) ==
  [resp |-> w.resp, outcome |-> w.outcome, raised |-> w.raised,
   parsed |-> w.parsed,
   incidents |-> w.incidents, out |-> w.out, events |-> w.events]

NewEvents(w, id) ==
  Cardinality({k \in 1..Len(w.events) :
                 w.events[k].id = id /\ w.events[k].is_new})

\* the loop enters _poll, which builds the headers and awaits session.get
SendRequest(p) ==
  /\ pc' = [pc EXCEPT ![p] = "fetching"]
  /\ sleep' = [sleep EXCEPT ![p] = NoSleep]
  /\ request' = [request EXCEPT ![p] = build_headers(etag[p], last_modified[p])]
  /\ cyc' = [cyc EXCEPT ![p] = NoCycle]
  /\ running' = [running EXCEPT ![p] = @ + 1]
  /\ UNCHANGED <<parser_vars, scenario, providers, settings, cancel_req,
                 monitor_vars, incident_count, had_parse, new_count, emitted,
                 seeded, stored, failed_cycles, performed, supplied,
                 last_fp>>

\* the task created by StatusTracker.run starts running (monitor.py 66-74)
Start(p) ==
  /\ pc[p] = "created"
  /\ ~cancel_req[p]
  /\ SendRequest(p)

\* a timer that starts the next poll whether or not the last one is over
SleepDone_on_timer(p) ==
  /\ pc[p] \in {"sleeping", "fetching"}
  /\ ~cancel_req[p]
  /\ SendRequest(p)

\* a sleep that returns although the task was cancelled
SleepDone_ignores_cancel(p) ==
  /\ pc[p] = "sleeping"
  /\ SendRequest(p)

\* asyncio.sleep returns and the loop goes round (monitor.py 72-74)
SleepDone(p) ==
  /\ pc[p] = "sleeping"
  /\ ~cancel_req[p]
  /\ SendRequest(p)

Is2xx(status) == status \in 200..299

\* the responses whose body _poll reads (monitor.py 115-121)
IsRead(status) == status \in 1..399 /\ status # 304

\* the ids and the fingerprints of the incidents of a list, in its order
Occurrences(incs) ==
  [k \in 1..Len(incs) |->
     [id |-> incs[k].id, hash |-> incident_hash(incs[k])]]

\* the fingerprint of the last of occ that carries id, or else
LastHashOf(occ, id, else) ==
  LET ks == {k \in 1..Len(occ) : occ[k].id = id} IN
  IF ks = {} THEN else
  ELSE occ[CHOOSE k \in ks : \A j \in ks : j <= k].hash

\* the history variable last_fp after the cycle w: what a first-run cycle
\* seeded and what a diffed cycle emitted, and the last entries of a diffed
\* document
Reported(fp, w) ==
  [reported |->
     [i \in Ids |->
        IF w.outcome = "first_run"
        THEN LastHashOf(Occurrences(w.incidents), i, fp.reported[i])
        ELSE LastHashOf(w.events, i, fp.reported[i])],
   diffed |->
     [i \in Ids |->
        IF w.outcome = "diff"
        THEN LastHashOf(Occurrences(w.incidents), i, fp.diffed[i])
        ELSE fp.diffed[i]]]

\* the history variable supplied after response r
Supplied(sup, r) ==
  LET e == r.headers["ETag"]
      lm == r.headers["Last-Modified"]
  IN  [etag |-> IF Is2xx(r.status) /\ e # None THEN e ELSE sup.etag,
       last_modified |-> IF Is2xx(r.status) /\ lm # None THEN lm
                         ELSE sup.last_modified,
       ok_etag |-> IF IsRead(r.status) /\ e # None THEN e ELSE sup.ok_etag,
       ok_last_modified |-> IF IsRead(r.status) /\ lm # None THEN lm
                            ELSE sup.ok_last_modified]

\* the state a cycle leaves behind, whether _poll returned or raised
Commit(p, w) ==
  /\ etag' = [etag EXCEPT ![p] = w.etag]
  /\ last_modified' = [last_modified EXCEPT ![p] = w.last_modified]
  /\ last_hash' = [last_hash EXCEPT ![p] = w.last_hash]
  /\ seen_ids' = [seen_ids EXCEPT ![p] = w.seen_ids]
  /\ seen_updates' = [seen_updates EXCEPT ![p] = w.seen_updates]
  /\ first_run' = [first_run EXCEPT ![p] = w.first_run]
  /\ incident_count' = w.count
  /\ had_parse' = [had_parse EXCEPT ![p] = @ \/ w.parsed]
  /\ new_count' = [new_count EXCEPT ![p] =
                     [i \in Ids |-> @[i] + NewEvents(w, i)]]
  /\ emitted' = emitted + Len(w.events)
  /\ seeded' = seeded + w.seeded
  /\ stored' = [stored EXCEPT ![p] = w.stored]
  /\ failed_cycles' = [failed_cycles EXCEPT ![p] =
                         IF w.raised THEN @ + 1 ELSE 0]
  /\ performed' = [performed EXCEPT ![p] = @ + w.seeded + Len(w.events)]
  /\ supplied' = [supplied EXCEPT ![p] = Supplied(@, w.resp)]
  /\ last_fp' = [last_fp EXCEPT ![p] = Reported(@, w)]

\* _poll returned, and the error counter is left as it was
Succeed_keeps_errors(p, w) ==
  /\ Commit(p, w)
  /\ UNCHANGED consecutive_errors
  /\ cyc' = [cyc EXCEPT ![p] = CycleRecord(w)]
  /\ sleep' = [sleep EXCEPT ![p] =
                 [kind |-> "interval", quarters |-> 4 * PollInterval]]

\* _poll returned: monitor.py 75-76
Succeed(p, w) ==
  /\ Commit(p, w)
  /\ consecutive_errors' = [consecutive_errors EXCEPT ![p] = 0]
  /\ cyc' = [cyc EXCEPT ![p] = CycleRecord(w)]
  /\ sleep' = [sleep EXCEPT ![p] =
                 [kind |-> "interval", quarters |-> 4 * PollInterval]]

\* _poll raised, and the loop sleeps the poll interval instead of the backoff
Fail_sleeps_interval(p, w, jitter4) ==
  LET errors == consecutive_errors[p] + 1
      wait == backoff_delay4(settings, errors, jitter4)
  IN  /\ Commit(p, w)
      /\ consecutive_errors' = [consecutive_errors EXCEPT ![p] = errors]
      /\ cyc' = [cyc EXCEPT ![p] =
                   CycleRecord(Say(Say(w, print_error(p)),
                                   print_retry(p, errors, wait)))]
      /\ sleep' = [sleep EXCEPT ![p] =
                     [kind |-> "interval", quarters |-> 4 * PollInterval]]

\* _poll raised: monitor.py 79-88
Fail(p, w, jitter4) ==
  LET errors == consecutive_errors[p] + 1
      wait == backoff_delay4(settings, errors, jitter4)
  IN  /\ Commit(p, w)
      /\ consecutive_errors' = [consecutive_errors EXCEPT ![p] = errors]
      /\ cyc' = [cyc EXCEPT ![p] =
                   CycleRecord(Say(Say(w, print_error(p)),
                                   print_retry(p, errors, wait)))]
      /\ sleep' = [sleep EXCEPT ![p] =
                     [kind |-> "backoff", quarters |-> wait]]

\* _poll raised and _backoff_delay raises in the handler (monitor.py
\* 79-81): nothing is printed, the exception leaves start() and the task
\* is done
Crash(p, w) ==
  /\ Commit(p, w)
  /\ consecutive_errors' = [consecutive_errors EXCEPT ![p] = @ + 1]
  /\ cyc' = [cyc EXCEPT ![p] = CycleRecord(w)]
  /\ sleep' = [sleep EXCEPT ![p] = NoSleep]

\* the response (or the failure) of session.get arrives and the loop runs
\* to its next sleep, or out of start()
FetchReturn(p) ==
  /\ pc[p] = "fetching"
  /\ ~cancel_req[p]
  /\ running' = [running EXCEPT ![p] = @ - 1]
  /\ \E r \in UpstreamOf(scenario, p) :
     \E w \in {poll([Cycle(p) EXCEPT !.resp = r], r, settings, p)} :
       /\ w.count <= MaxCount
       /\ IF ~w.raised
          THEN /\ Succeed(p, w)
               /\ pc' = [pc EXCEPT ![p] = "sleeping"]
          ELSE /\ consecutive_errors[p] < ErrorsBound(scenario)
               /\ IF backoff_raises(settings, consecutive_errors[p] + 1)
                  THEN /\ Crash(p, w)
                       /\ pc' = [pc EXCEPT ![p] = "crashed"]
                  ELSE /\ \E j \in Jitters4(settings,
                                            consecutive_errors[p] + 1) :
                            Fail(p, w, j)
                       /\ pc' = [pc EXCEPT ![p] = "sleeping"]
  /\ UNCHANGED <<parser_vars, scenario, providers, settings, cancel_req,
                 request>>

\* StatusTracker.shutdown, on a signal: task.cancel() on every task
\* (main.py 74-77)
Shutdown ==
  /\ scenario \in {"transport", "pair"}
  /\ \E p \in providers : ~cancel_req[p]
  /\ cancel_req' = [p \in ProviderNames |-> p \in providers]
  /\ UNCHANGED <<parser_vars, scenario, providers, settings, pc, sleep,
                 request, monitor_vars, incident_count, history_vars,
                 running>>

\* a task is done with an exception: gather re-raises it in run(), which
\* catches CancelledError only (main.py 68-72), run() and async_main() end
\* with it and asyncio.run cancels every task that is left (main.py 133)
RunEnds ==
  /\ \E p \in providers : pc[p] = "crashed"
  /\ \E p \in providers : ~cancel_req[p]
  /\ cancel_req' = [p \in ProviderNames |-> p \in providers]
  /\ UNCHANGED <<parser_vars, scenario, providers, settings, pc, sleep,
                 request, monitor_vars, incident_count, history_vars,
                 running>>

\* CancelledError is thrown into the task where it is suspended and the
\* loop breaks (monitor.py 77-78)
Cancelled(p) ==
  /\ cancel_req[p]
  /\ pc[p] \in {"created", "fetching", "sleeping"}
  /\ pc' = [pc EXCEPT ![p] = "cancelled"]
  /\ sleep' = [sleep EXCEPT ![p] = NoSleep]
  /\ running' = [running EXCEPT ![p] = 0]
  /\ UNCHANGED <<parser_vars, scenario, providers, settings, cancel_req,
                 request, monitor_vars, incident_count, history_vars>>

Next ==
  \/ \E p \in providers : Start(p)
  \/ \E p \in providers : FetchReturn(p)
  \/ \E p \in providers : SleepDone(p)
  \/ Shutdown
  \/ RunEnds
  \/ \E p \in providers : Cancelled(p)

Spec == Init /\ [][Next]_vars

\* the event loop resumes a task whose sleep has elapsed or into which a
\* CancelledError is to be thrown, and runs a task it has created
Fairness ==
  \A p \in ProviderNames :
    /\ WF_vars(Start(p))
    /\ WF_vars(SleepDone(p))
    /\ WF_vars(Cancelled(p))

FairSpec == Init /\ [][Next]_vars /\ Fairness

\* StatusTracker.run with two providers: one monitor and one task each
\* (main.py 59-66)
InitTwo == InitWith(ProviderNames, PairScenarios)

SpecTwo == InitTwo /\ [][Next]_vars

(***************************************************************************)
(* _backoff_delay on its own.  The inputs are drawn by the initial state:  *)
(* a monitor whose _poll has just raised, for the (consecutive_errors+1)th *)
(* time in a row, under settings with any max_retries and base_backoff of  *)
(* the grid; the one step is the except handler of start (monitor.py       *)
(* 79-88), which increments the counter, calls _backoff_delay and sleeps.  *)
(***************************************************************************)
BackoffSettings ==
  [log_level : {"INFO"},
   max_retries : 0..FnRetries \cup {LargeRetries},
   base_backoff : 0..FnBackoff,
   show_historical : {TRUE}, max_historical : {MaxHistorical}]

BackoffErrors == 0..(FnErrors - 1) \cup (FloatMaxExp - 2)..(OutageErrors - 1)

InitBackoff ==
  /\ scenario = "backoff"
  /\ providers = {"OpenAI"}
  /\ settings \in BackoffSettings
  /\ pc = [p \in ProviderNames |->
             IF p = "OpenAI" THEN "handling" ELSE "absent"]
  /\ \E n \in BackoffErrors :
       consecutive_errors = [p \in ProviderNames |->
                               IF p = "OpenAI" THEN n ELSE 0]
  /\ sleep = [p \in ProviderNames |-> NoSleep]
  /\ cancel_req = [p \in ProviderNames |-> FALSE]
  /\ request = [p \in ProviderNames |-> NoRequest]
  /\ etag = [p \in ProviderNames |-> None]
  /\ last_modified = [p \in ProviderNames |-> None]
  /\ last_hash = [p \in ProviderNames |-> NoneHash]
  /\ seen_ids = [p \in ProviderNames |-> {}]
  /\ seen_updates = [p \in ProviderNames |-> << >>]
  /\ first_run = [p \in ProviderNames |-> TRUE]
  /\ incident_count = 0
  /\ cyc = [p \in ProviderNames |-> NoCycle]
  /\ had_parse = [p \in ProviderNames |-> FALSE]
  /\ new_count = [p \in ProviderNames |-> [i \in Ids |-> 0]]
  /\ emitted = 0
  /\ seeded = 0
  /\ stored = [p \in ProviderNames |-> << >>]
  /\ failed_cycles = consecutive_errors
  /\ running = [p \in ProviderNames |-> 0]
  /\ performed = [p \in ProviderNames |-> 0]
  /\ supplied = [p \in ProviderNames |-> NoneSupplied]
  /\ last_fp = [p \in ProviderNames |-> NoneReported]
  /\ parser_call = NoCall
  /\ parser_ret = NoReturn

\* the except handler of start after a failed fetch (monitor.py 79-88)
HandleError(p) ==
  /\ pc[p] = "handling"
  /\ \E w \in {poll([Cycle(p) EXCEPT !.resp = NoResponse], NoResponse,
                     settings, p)} :
       IF backoff_raises(settings, consecutive_errors[p] + 1)
       THEN /\ Crash(p, w)
            /\ pc' = [pc EXCEPT ![p] = "crashed"]
       ELSE /\ \E j \in Jitters4(settings, consecutive_errors[p] + 1) :
                 Fail(p, w, j)
            /\ pc' = [pc EXCEPT ![p] = "sleeping"]
  /\ UNCHANGED <<parser_vars, scenario, providers, settings, cancel_req,
                 request, running>>

NextBackoff == \E p \in providers : HandleError(p)

SpecBackoff == InitBackoff /\ [][NextBackoff]_vars

(***************************************************************************)
(* feed_parser.  A text is the sequence of its characters.  The regular    *)
(* expressions of the module are modelled by what re does with them: the   *)
(* leftmost match, greedy and lazy quantifiers with backtracking.          *)
(***************************************************************************)
\* the characters str.split and \s take for whitespace, among those used
Whitespace == {" ", "\n"}

MinOf(S) == CHOOSE x \in S : \A y \in S : x <= y
MaxOf(S) == CHOOSE x \in S : \A y \in S : y <= x

\* _HTML_TAG_RE = "<[^>]+>" tried at the "<" at position i: the position of
\* the ">" that ends the match, or 0.  [^>]+ takes one character or more
\* and cannot pass a ">", so the match ends at the first ">" after i and
\* there is none when that ">" follows at once
TagEnd(s, i) ==
  LET closers == {j \in (i + 1)..Len(s) : s[j] = ">"} IN
  IF closers = {} THEN 0
  ELSE IF MinOf(closers) >= i + 2 THEN MinOf(closers)
  ELSE 0

\* _HTML_TAG_RE.sub(" ", s), from position i on
RECURSIVE TagSub(_, _)
TagSub(s, i) ==
  IF i > Len(s) THEN << >>
  ELSE IF s[i] = "<" /\ TagEnd(s, i) # 0
  THEN <<" ">> \o TagSub(s, TagEnd(s, i) + 1)
  ELSE <<s[i]>> \o TagSub(s, i + 1)

\* str.split(): the maximal runs of characters that are not whitespace
RECURSIVE split(_)
split(s) ==
  IF s = << >> THEN << >>
  ELSE IF Head(s) \in Whitespace THEN split(Tail(s))
  ELSE LET stops == {i \in 1..Len(s) : s[i] \in Whitespace}
           n == IF stops = {} THEN Len(s) + 1 ELSE MinOf(stops)
       IN  <<SubSeq(s, 1, n - 1)>> \o split(SubSeq(s, n, Len(s)))

\* sep.join(words)
RECURSIVE join(_, _)
join(sep, words) ==
  IF words = << >> THEN << >>
  ELSE IF Len(words) = 1 THEN words[1]
  ELSE words[1] \o sep \o join(sep, Tail(words))

\* str.strip()
strip(s) ==
  LET keep == {i \in 1..Len(s) : s[i] \notin Whitespace} IN
  IF keep = {} THEN << >> ELSE SubSeq(s, MinOf(keep), MaxOf(keep))

\* feed_parser._strip_html
strip_html(text) == strip(join(<<" ">>, split(TagSub(text, 1))))

\* str.lower() on the letters used
Lower(c) ==
  CASE c = "B" -> "b" [] c = "S" -> "s" [] c = "T" -> "t" [] c = "A" -> "a"
    [] c = "U" -> "u" [] c = "L" -> "l" [] c = "I" -> "i" [] c = "R" -> "r"
    [] c = "F" -> "f" [] c = "E" -> "e" [] c = "C" -> "c" [] c = "D" -> "d"
    [] c = "O" -> "o" [] c = "M" -> "m" [] c = "P" -> "p" [] c = "N" -> "n"
    [] OTHER -> c

\* the literal lit stands in s at position i, under re.IGNORECASE
MatchesAt(s, i, lit) ==
  /\ i >= 1
  /\ i + Len(lit) - 1 <= Len(s)
  /\ \A k \in 1..Len(lit) : Lower(s[i + k - 1]) = Lower(lit[k])

StatusOpen == <<"<", "b", ">", "S", "t", "a", "t", "u", "s", ":">>
BoldClose == <<"<", "/", "b", ">">>
Unknown == <<"U", "n", "k", "n", "o", "w", "n">>

\* the number of whitespace characters that stand in s from position q on
SpaceRun(s, q) ==
  MaxOf({k \in 0..(Len(s) - q + 1) :
           \A j \in q..(q + k - 1) : s[j] \in Whitespace})

\* _STATUS_RE = "<b>Status:\s*(.+?)</b>" tried at position i: the ways to
\* match, as the number k of characters \s* takes and the end e of the
\* group; the group is one character or more, none of them a newline
StatusMatches(s, i) ==
  LET q == i + Len(StatusOpen) IN
  IF ~MatchesAt(s, i, StatusOpen) THEN {}
  ELSE {m \in (0..SpaceRun(s, q)) \X (q..Len(s)) :
          /\ m[2] >= q + m[1]
          /\ \A j \in (q + m[1])..m[2] : s[j] # "\n"
          /\ MatchesAt(s, m[2] + 1, BoldClose)}

\* group(1) of the match at i: \s* is greedy and gives characters back only
\* when nothing matches otherwise, (.+?) is lazy
StatusGroup(s, i) ==
  LET ms == StatusMatches(s, i)
      k == MaxOf({m[1] : m \in ms})
      e == MinOf({m[2] : m \in {n \in ms : n[1] = k}})
  IN  SubSeq(s, i + Len(StatusOpen) + k, e)

\* the positions at which _STATUS_RE matches
StatusStarts(s) == {i \in 1..Len(s) : StatusMatches(s, i) # {}}

\* feed_parser._parse_status
parse_status(html_content) ==
  IF StatusStarts(html_content) # {}
  THEN strip(strip_html(StatusGroup(html_content,
                                    MinOf(StatusStarts(html_content)))))
  ELSE Unknown

ItemOpen == <<"<", "l", "i", ">">>
ItemClose == <<"<", "/", "l", "i", ">">>

\* _COMPONENT_RE = "<li>(.+?)</li>" under re.DOTALL, tried at position i:
\* the ends the group can have; the group is one character or more
ItemEnds(s, i) ==
  IF ~MatchesAt(s, i, ItemOpen) THEN {}
  ELSE {e \in (i + Len(ItemOpen))..Len(s) : MatchesAt(s, e + 1, ItemClose)}

\* _COMPONENT_RE.finditer(s): group(1) of the successive matches, each
\* the leftmost that starts at or after the end of the one before, with the
\* lazy group as short as it can be
RECURSIVE ItemGroups(_, _)
ItemGroups(s, from) ==
  LET starts == {i \in from..Len(s) : ItemEnds(s, i) # {}} IN
  IF starts = {} THEN << >>
  ELSE LET i == MinOf(starts)
           e == MinOf(ItemEnds(s, i))
       IN  <<SubSeq(s, i + Len(ItemOpen), e)>>
             \o ItemGroups(s, e + 1 + Len(ItemClose))

\* the first position at or after q that holds no whitespace
SkipSpace(s, q) == q + SpaceRun(s, q)

\* the first ")" after position p, or 0
CloseAfter(s, p) ==
  LET closers == {c \in (p + 1)..Len(s) : s[c] = ")"} IN
  IF closers = {} THEN 0 ELSE MinOf(closers)

\* _COMPONENT_SPLIT_RE = "^(.+?)\s*\(([^)]+)\)\s*$": the lengths n the first
\* group can have.  After the group and whitespace comes a "(", then one
\* character or more other than ")", the first ")" after the "(", and
\* whitespace to the end
SplitLengths(raw) ==
  {n \in 1..Len(raw) :
     /\ \A j \in 1..n : raw[j] # "\n"
     /\ SkipSpace(raw, n + 1) <= Len(raw)
     /\ raw[SkipSpace(raw, n + 1)] = "("
     /\ CloseAfter(raw, SkipSpace(raw, n + 1)) >= SkipSpace(raw, n + 1) + 2
     /\ \A j \in (CloseAfter(raw, SkipSpace(raw, n + 1)) + 1)..Len(raw) :
          raw[j] \in Whitespace}

\* feed_parser.py 66-70: the component of a stripped list item
split_component(raw) ==
  IF SplitLengths(raw) # {}
  THEN LET n == MinOf(SplitLengths(raw))
           p == SkipSpace(raw, n + 1)
       IN  Component(strip(SubSeq(raw, 1, n)),
                     strip(SubSeq(raw, p + 1, CloseAfter(raw, p) - 1)))
  ELSE Component(raw, << >>)

\* the loop of _parse_components (feed_parser.py 60-70)
RECURSIVE components_loop(_, _, _)
components_loop(groups, seen, components) ==
  IF groups = << >> THEN components
  ELSE LET raw == strip(strip_html(Head(groups))) IN
       IF raw = << >> \/ raw \in seen
       THEN components_loop(Tail(groups), seen, components)
       ELSE components_loop(Tail(groups), seen \cup {raw},
                            Append(components, split_component(raw)))

\* feed_parser._parse_components
parse_components(html_content) ==
  components_loop(ItemGroups(html_content, 1), {}, << >>)

\* how a call ends: with a value, or with an exception
Returned(value) == [done |-> TRUE, raised |-> FALSE, value |-> value]
Raised == [done |-> TRUE, raised |-> TRUE, value |-> << >>]

\* the end of group(1) of the match of _STATUS_RE at i
StatusEnd(s, i) ==
  LET ms == StatusMatches(s, i)
      k == MaxOf({m[1] : m \in ms})
  IN  MinOf({m[2] : m \in {n \in ms : n[1] = k}})

\* _STATUS_RE.sub("", s), from position from on: the text without the
\* successive matches
RECURSIVE StatusSub(_, _)
StatusSub(s, from) ==
  LET starts == {i \in from..Len(s) : StatusMatches(s, i) # {}} IN
  IF starts = {} THEN SubSeq(s, from, Len(s))
  ELSE LET i == MinOf(starts) IN
       SubSeq(s, from, i - 1)
         \o StatusSub(s, StatusEnd(s, i) + Len(BoldClose) + 1)

AffectedMarker ==
  <<"<", "b", ">", "a", "f", "f", "e", "c", "t", "e", "d", " ", "c", "o", "m",
    "p", "o", "n", "e", "n", "t", "s", "<", "/", "b", ">">>

\* feed_parser._parse_summary_text
parse_summary_text(html_content) ==
  LET text == StatusSub(html_content, 1)
      found == {i \in 1..Len(text) : MatchesAt(text, i, AffectedMarker)}
  IN  strip(strip_html(IF found = {} THEN text
                       ELSE SubSeq(text, 1, MinOf(found) - 1)))

(***************************************************************************)
(* Feed documents as trees.  A document is the entry and item elements     *)
(* under its root, in document order, which are the children of the root   *)
(* or, with a wrapper, the children of the one child of the root (the      *)
(* channel of an RSS document).  An element has a tag, a         *)
(* namespace, and the texts of the children that give the id (id, guid),   *)
(* the link, the date (updated, pubDate), the title and the content        *)
(* (content, description), None for a child that is absent or empty.       *)
(***************************************************************************)
AtomNs == "http://www.w3.org/2005/Atom"
NoNs == ""

ValidDate == "2024-01-01T00:00:00Z"
OverflowDate == "10000000000-01-01"
DateTexts == {None, ValidDate, OverflowDate}

SampleContent ==
  StatusOpen \o <<" ", "x">> \o BoldClose \o <<"y">> \o ItemOpen
    \o <<"A", " ", "(", "U", ")">> \o ItemClose

QNames ==
  {[tag |-> "entry", ns |-> AtomNs], [tag |-> "entry", ns |-> NoNs],
   [tag |-> "item", ns |-> NoNs]}

\* entry elements of the Atom namespace and item elements, with and
\* without an id and with each of the dates, and one entry element of no
\* namespace
Elements ==
  {e \in [tag : {"entry", "item"}, ns : {AtomNs, NoNs}, id : {None, "a"},
           link : {"l"}, updated : DateTexts, title : {<<"t">>},
           content : {SampleContent}] :
     /\ [tag |-> e.tag, ns |-> e.ns] \in QNames
     /\ e.tag = "entry" /\ e.ns = NoNs => e.id = "a" /\ e.updated = ValidDate}

FeedDocuments ==
  [wrapper : {None, "channel"}, elements : SeqsUpTo(Elements, MaxElements)]

\* value or fallback: Python's "x or y" on an Optional[str]
Or(x, y) == IF Truthy(x) THEN x ELSE y

\* dateutil_parser.parse: a datetime, or the exception it raises.  A year
\* that does not fit a C integer raises OverflowError, any other text that
\* is no date (the empty string among them) a ParserError, which is a
\* ValueError
dateutil_parse(dt_string) ==
  CASE dt_string = ValidDate ->
         [exc |-> None, value |-> [datetime |-> <<2024, 1, 1>>]]
    [] dt_string = OverflowDate -> [exc |-> "OverflowError", value |-> None]
    [] OTHER -> [exc |-> "ValueError", value |-> None]

\* feed_parser._safe_parse_datetime: ValueError and TypeError give the
\* time of the call, any other exception goes on to the caller
safe_parse_datetime(dt_string, now) ==
  LET r == dateutil_parse(dt_string) IN
  IF r.exc \in {"ValueError", "TypeError"}
  THEN [exc |-> None, value |-> [datetime |-> now]]
  ELSE r

\* the Incident that parse_atom_feed and parse_rss_feed build
IncidentOf(entry_id, e, updated, link, provider_name) ==
  [id |-> entry_id, title |-> strip_html(e.title),
   status |-> parse_status(e.content), updated |-> updated, link |-> link,
   summary |-> parse_summary_text(e.content),
   components |-> parse_components(e.content), provider |-> provider_name]

\* the loops of parse_atom_feed and parse_rss_feed over the elements found:
\* the incidents, or the exception of the first date that raises one
RECURSIVE incidents_loop(_, _, _, _, _)
incidents_loop(found, rss, provider_name, now, incidents) ==
  IF found = << >> THEN Returned(incidents)
  ELSE LET e == Head(found)
           entry_id == IF rss THEN Or(Or(e.id, e.link), "") ELSE Or(e.id, "")
           updated == safe_parse_datetime(Or(e.updated, ""), now)
       IN  IF updated.exc # None THEN Raised
           ELSE incidents_loop(Tail(found), rss, provider_name, now,
                  Append(incidents,
                         IncidentOf(entry_id, e, updated.value, e.link,
                                    provider_name)))

\* root.findall("atom:entry", _ATOM_NS): the children of the root that are
\* entry elements of the Atom namespace
findall_entry(doc) ==
  IF doc.wrapper # None THEN << >>
  ELSE SelectSeq(doc.elements, LAMBDA e : e.tag = "entry" /\ e.ns = AtomNs)

\* root.iter("item"): the item elements of the document, at any depth
iter_item(doc) ==
  SelectSeq(doc.elements, LAMBDA e : e.tag = "item" /\ e.ns = NoNs)

\* feed_parser.parse_atom_feed
parse_atom_feed(doc, provider_name, now) ==
  incidents_loop(findall_entry(doc), FALSE, provider_name, now, << >>)

\* feed_parser.parse_rss_feed
parse_rss_feed(doc, provider_name, now) ==
  incidents_loop(iter_item(doc), TRUE, provider_name, now, << >>)

\* str.lower()
lower(text) == [k \in 1..Len(text) |-> Lower(text[k])]

Rss == <<"r", "s", "s">>

\* feed_parser.parse_feed, on the tree of a well-formed document
parse_feed_tree(doc, feed_type, provider_name, now) ==
  IF lower(feed_type) = Rss THEN parse_rss_feed(doc, provider_name, now)
  ELSE parse_atom_feed(doc, provider_name, now)

(***************************************************************************)
(* The functions of feed_parser on their own.  The initial state draws a   *)
(* call, a function with its arguments; the one step of a behaviour runs   *)
(* the call.                                                               *)
(***************************************************************************)
TextChars == {"<", ">", " ", "\n", "a"}

StripCalls == [fn : {"strip_html"}, text : SeqsUpTo(TextChars, MaxText)]

\* the concatenation of the pieces
RECURSIVE Flatten(_)
Flatten(pieces) ==
  IF pieces = << >> THEN << >> ELSE Head(pieces) \o Flatten(Tail(pieces))

StatusPieces ==
  {StatusOpen, <<"<", "B", ">", "S", "T", "A", "T", "U", "S", ":">>,
   BoldClose, <<"<", "i", ">">>, <<" ">>, <<"\n">>, <<"x">>}

StatusCalls ==
  [fn : {"parse_status"},
   text : {Flatten(ps) : ps \in SeqsUpTo(StatusPieces, MaxPieces)}]

\* the texts of list items: bare names, names with a status in
\* parentheses, spaced in three ways, with and without markup, and empty
\* items
ItemTexts ==
  {<< >>, <<" ">>, <<"A">>, <<"B">>, <<"<", "i", ">", "A", "<", "/", "i", ">">>,
   <<"A", " ", "(", "U", ")">>, <<"A", "(", "U", ")">>,
   <<"A", " ", "(", " ", "U", " ", ")">>, <<"B", " ", "(", "U", ")">>,
   <<"A", " ", "(", ")">>}

\* the list the items make, with sep between them
RECURSIVE ItemList(_, _)
ItemList(items, sep) ==
  IF items = << >> THEN << >>
  ELSE ItemOpen \o Head(items) \o ItemClose \o sep
         \o ItemList(Tail(items), sep)

ComponentsCalls ==
  [fn : {"parse_components"}, items : SeqsUpTo(ItemTexts, MaxItems),
   sep : {<< >>, <<"\n">>}]

FeedTypes ==
  {<<"a", "t", "o", "m">>, Rss, <<"R", "S", "S">>, <<"x", "m", "l">>}

Nows == {<<2026, 1, 1>>}

FeedCalls ==
  [fn : {"parse_feed"}, doc : FeedDocuments, feed_type : FeedTypes,
   provider_name : ProviderNames, now : Nows]

ParserCalls ==
  StripCalls \cup StatusCalls \cup ComponentsCalls \cup FeedCalls

InitParser ==
  /\ scenario = "parser"
  /\ providers = {}
  /\ settings \in SettingsOf("example")
  /\ pc = [p \in ProviderNames |-> "absent"]
  /\ sleep = [p \in ProviderNames |-> NoSleep]
  /\ cancel_req = [p \in ProviderNames |-> FALSE]
  /\ request = [p \in ProviderNames |-> NoRequest]
  /\ etag = [p \in ProviderNames |-> None]
  /\ last_modified = [p \in ProviderNames |-> None]
  /\ last_hash = [p \in ProviderNames |-> NoneHash]
  /\ seen_ids = [p \in ProviderNames |-> {}]
  /\ seen_updates = [p \in ProviderNames |-> << >>]
  /\ consecutive_errors = [p \in ProviderNames |-> 0]
  /\ first_run = [p \in ProviderNames |-> TRUE]
  /\ incident_count = 0
  /\ cyc = [p \in ProviderNames |-> NoCycle]
  /\ had_parse = [p \in ProviderNames |-> FALSE]
  /\ new_count = [p \in ProviderNames |-> [i \in Ids |-> 0]]
  /\ emitted = 0
  /\ seeded = 0
  /\ stored = [p \in ProviderNames |-> << >>]
  /\ failed_cycles = [p \in ProviderNames |-> 0]
  /\ running = [p \in ProviderNames |-> 0]
  /\ performed = [p \in ProviderNames |-> 0]
  /\ supplied = [p \in ProviderNames |-> NoneSupplied]
  /\ last_fp = [p \in ProviderNames |-> NoneReported]
  /\ parser_call \in ParserCalls
  /\ parser_ret = NoReturn

\* the call returns, or raises
Run(result) ==
  /\ ~parser_ret.done
  /\ parser_ret' = result
  /\ UNCHANGED <<parser_call, scenario, providers, settings, pc, sleep,
                 cancel_req, request, monitor_vars, incident_count,
                 history_vars, running>>

StripHtml ==
  /\ parser_call.fn = "strip_html"
  /\ Run(Returned(strip_html(parser_call.text)))

ParseStatus ==
  /\ parser_call.fn = "parse_status"
  /\ Run(Returned(parse_status(parser_call.text)))

ParseComponents ==
  /\ parser_call.fn = "parse_components"
  /\ Run(Returned(parse_components(
           ItemList(parser_call.items, parser_call.sep))))

ParseFeed ==
  /\ parser_call.fn = "parse_feed"
  /\ Run(parse_feed_tree(parser_call.doc, parser_call.feed_type,
                         parser_call.provider_name, parser_call.now))

NextParser ==
  \/ StripHtml
  \/ ParseStatus
  \/ ParseComponents
  \/ ParseFeed

SpecParser == InitParser /\ [][NextParser]_vars

TypeOK ==
  /\ incident_count \in 0..MaxCount
  /\ \A p \in providers :
       /\ pc[p] \in {"created", "fetching", "handling", "sleeping",
                    "cancelled", "crashed"}
       /\ consecutive_errors[p] \in 0..ErrorsBound(scenario)
       /\ seen_ids[p] \subseteq Ids
       /\ first_run[p] \in BOOLEAN

(***************************************************************************)
(* Vocabulary of the properties.                                           *)
(***************************************************************************)
\* the step in which provider p's cycle runs, from the response to the sleep
\* or to the end of the task
CycleStep(p) == pc[p] = "fetching" /\ pc'[p] \in {"sleeping", "crashed"}

IdsOf(incs) == {incs[k].id : k \in 1..Len(incs)}

\* the last entry of incs that carries id
LastOf(incs, id) ==
  incs[CHOOSE k \in 1..Len(incs) :
         /\ incs[k].id = id
         /\ \A j \in (k + 1)..Len(incs) : incs[j].id # id]

\* the ids _seen_ids holds when the diff loop reaches position k
SeenAt(seen, incs, k) == seen \cup {incs[j].id : j \in 1..(k - 1)}

\* the fingerprint _seen_updates holds for incs[k].id when the diff loop
\* reaches position k
StoredAt(upd, incs, k) ==
  IF \E j \in 1..(k - 1) : incs[j].id = incs[k].id
  THEN incident_hash(LastOf(SubSeq(incs, 1, k - 1), incs[k].id))
  ELSE Get(upd, incs[k].id)

EventsAt(c, k) == {n \in 1..Len(c.events) : c.events[n].pos = k}

Printed(c, call) == {n \in 1..Len(c.out) : c.out[n].call = call}

\* the incident lines a cycle wrote that read as a new or an updated incident
IncidentLines(c) ==
  {n \in Printed(c, "print_incident") :
     c.out[n].tag \in {"NEW INCIDENT", "INCIDENT UPDATE"}}

(***************************************************************************)
(* C1.  The first cycle of a provider that fetches and parses successfully *)
(* clears first_run, whatever the number of parsed incidents; hence every  *)
(* incident id that first appears in a document of a later cycle is        *)
(* emitted as "new" in that cycle.                                         *)
(* The code returns on an empty incident list before it looks at           *)
(* first_run (monitor.py 144-149), so this statement is violated.          *)
(***************************************************************************)
C1_NoIncidentLost ==
  [][\A p \in providers :
       CycleStep(p) /\ cyc'[p].parsed =>
         /\ ~first_run'[p]
         /\ had_parse[p] =>
              \A id \in IdsOf(cyc'[p].incidents) \ seen_ids[p] :
                \E n \in 1..Len(cyc'[p].events) :
                  cyc'[p].events[n].id = id /\ cyc'[p].events[n].is_new]_vars

(***************************************************************************)
(* C2.  In a cycle that reaches the diff loop, every entry whose id is not *)
(* in seen_ids when the loop reaches it yields exactly one event, with     *)
(* is_new = TRUE; after the cycle the id is in seen_ids and the stored     *)
(* fingerprint is the one computed in this cycle for the id (of its last   *)
(* entry, should the document repeat the id); so an id unseen before the   *)
(* cycle gets exactly one "new" event and an id seen before gets none.     *)
(***************************************************************************)
C2_UnseenIdIsNewOnce ==
  [][\A p \in providers :
       CycleStep(p) /\ cyc'[p].outcome = "diff" =>
         LET c == cyc'[p]
             incs == c.incidents
         IN  /\ \A k \in 1..Len(incs) :
                  incs[k].id \notin SeenAt(seen_ids[p], incs, k) =>
                    /\ Cardinality(EventsAt(c, k)) = 1
                    /\ \A n \in EventsAt(c, k) :
                         /\ c.events[n].is_new
                         /\ c.events[n].id = incs[k].id
                         /\ c.events[n].hash = incident_hash(incs[k])
                    /\ incs[k].id \in seen_ids'[p]
                    /\ incs[k].id \in DOMAIN seen_updates'[p]
                    /\ seen_updates'[p][incs[k].id] =
                         incident_hash(LastOf(incs, incs[k].id))
             /\ \A id \in IdsOf(incs) \ seen_ids[p] : NewEvents(c, id) = 1
             /\ \A id \in seen_ids[p] : NewEvents(c, id) = 0
             /\ Cardinality({n \in Printed(c, "print_incident") :
                               c.out[n].is_new}) =
                  Cardinality(IdsOf(incs) \ seen_ids[p])]_vars

\* the spec's scenario: two seeded entries behind a new one give one event,
\* "new", for the new entry
C2_Witness ==
  \E p \in providers :
    /\ cyc[p].outcome = "diff"
    /\ Len(cyc[p].incidents) = 3
    /\ Len(cyc[p].events) = 1
    /\ cyc[p].events[1].is_new
    /\ cyc[p].events[1].pos = 1
    /\ cyc[p].events[1].id = "c"
    /\ seen_ids[p] = {"a", "b", "c"}

(***************************************************************************)
(* C3.  In a cycle that reaches the diff loop, every entry whose id is in  *)
(* seen_ids and whose fingerprint differs from the stored one yields       *)
(* exactly one event, with is_new = FALSE, and the stored fingerprint is   *)
(* overwritten; two incidents that differ in the status field only have    *)
(* different fingerprints, so a change of status alone is such an update.  *)
(***************************************************************************)
C3_ChangedFingerprintIsUpdate ==
  [][\A p \in providers :
       CycleStep(p) /\ cyc'[p].outcome = "diff" =>
         LET c == cyc'[p]
             incs == c.incidents
         IN  \A k \in 1..Len(incs) :
               /\ ( /\ incs[k].id \in SeenAt(seen_ids[p], incs, k)
                    /\ StoredAt(seen_updates[p], incs, k) #
                         incident_hash(incs[k]) ) =>
                    /\ Cardinality(EventsAt(c, k)) = 1
                    /\ \A n \in EventsAt(c, k) :
                         /\ ~c.events[n].is_new
                         /\ c.events[n].id = incs[k].id
                         /\ c.events[n].hash = incident_hash(incs[k])
                    /\ seen_updates'[p][incs[k].id] =
                         incident_hash(LastOf(incs, incs[k].id))
               /\ \A old \in Incidents :
                    ( /\ incs[k].id \in seen_ids[p]
                      /\ \A j \in 1..Len(incs) : j # k => incs[j].id # incs[k].id
                      /\ Get(seen_updates[p], incs[k].id) = incident_hash(old)
                      /\ old.status # incs[k].status
                      /\ old.summary = incs[k].summary
                      /\ old.components = incs[k].components ) =>
                      /\ Cardinality(EventsAt(c, k)) = 1
                      /\ \A n \in EventsAt(c, k) : ~c.events[n].is_new
                      /\ seen_updates'[p][incs[k].id] = incident_hash(incs[k])
                      /\ seen_updates'[p][incs[k].id] # seen_updates[p][incs[k].id]
       ]_vars

\* a cycle whose only event is the update of a seeded incident
C3_Witness ==
  \E p \in providers :
    /\ cyc[p].outcome = "diff"
    /\ Len(cyc[p].incidents) = 1
    /\ Len(cyc[p].events) = 1
    /\ ~cyc[p].events[1].is_new
    /\ new_count[p][cyc[p].events[1].id] = 0
    /\ seen_updates[p][cyc[p].events[1].id] = cyc[p].events[1].hash

(***************************************************************************)
(* C4.  The first-run cycle delivers no incident to the notifier as a new  *)
(* or as an updated incident, for any settings.                            *)
(* The code shows a historical incident with print_incident(inc,           *)
(* is_new=False) (monitor.py 154), the call of an update, which            *)
(* print_incident tags "INCIDENT UPDATE" (notifier.py 80), so this         *)
(* statement is violated.                                                  *)
(***************************************************************************)
C4_FirstRunEmitsNoNewOrUpdate ==
  \A p \in providers :
    cyc[p].outcome = "first_run" =>
      /\ cyc[p].events = << >>
      /\ IncidentLines(cyc[p]) = {}

(***************************************************************************)
(* C5.  After the first-run cycle seen_ids holds the id of every parsed    *)
(* incident and the fingerprint map a fingerprint for each, whatever       *)
(* show_historical and max_historical are.                                 *)
(***************************************************************************)
C5_FirstRunSeedsAll ==
  \A p \in providers :
    cyc[p].outcome = "first_run" =>
      /\ ~first_run[p]
      /\ \A id \in IdsOf(cyc[p].incidents) :
           /\ id \in seen_ids[p]
           /\ id \in DOMAIN seen_updates[p]
           /\ seen_updates[p][id] = incident_hash(LastOf(cyc[p].incidents, id))

\* two incidents parsed, fewer of them displayed
C5_Witness ==
  \E p \in providers :
    /\ cyc[p].outcome = "first_run"
    /\ Cardinality(IdsOf(cyc[p].incidents)) = 2
    /\ Cardinality(Printed(cyc[p], "print_incident")) < 2
    /\ seen_ids[p] = IdsOf(cyc[p].incidents)

(***************************************************************************)
(* C6.  Over the life of a poll loop an incident id is emitted as "new"    *)
(* at most once, whatever documents, responses and failures arrive, also   *)
(* when the id leaves the feed and comes back.                             *)
(***************************************************************************)
C6_NewAtMostOnce ==
  \A p \in providers : \A id \in Ids : new_count[p][id] <= 1

\* an id reported as new in an earlier cycle is in the document again
C6_Witness ==
  \E p \in providers : \E id \in Ids :
    /\ new_count[p][id] = 1
    /\ cyc[p].outcome = "diff"
    /\ id \in IdsOf(cyc[p].incidents)
    /\ NewEvents(cyc[p], id) = 0

(***************************************************************************)
(* C7, as claimed.  The tracked-incident counter equals the number of new  *)
(* and updated events emitted so far by all poll loops.                    *)
(* The seeding loop of the first-run cycle counts every seeded incident    *)
(* too (monitor.py 159), so this statement is violated.                    *)
(***************************************************************************)
C7_CounterIsEmissions == incident_count = emitted

(***************************************************************************)
(* C7, amended.  The tracked-incident counter equals the number of new and *)
(* updated events emitted so far plus the number of incidents seeded by    *)
(* first-run cycles; nothing else changes it.                              *)
(***************************************************************************)
C7_CounterIsEmissionsPlusSeeded == incident_count = emitted + seeded

\* seeded incidents, a new one and an updated one have all been counted
C7_Witness ==
  /\ seeded > 0
  /\ emitted >= 2
  /\ \E p \in providers :
       /\ cyc[p].outcome = "diff"
       /\ \E n \in 1..Len(cyc[p].events) : ~cyc[p].events[n].is_new
       /\ \E id \in Ids : new_count[p][id] = 1

(***************************************************************************)
(* C8.  A cycle that fails with a parse error leaves etag, last_modified,  *)
(* last_body_hash, seen_ids, fingerprints and first_run as they were.      *)
(* The code stores the response's cache headers (monitor.py 124-127) and   *)
(* the body's hash (monitor.py 135) before it parses, so this statement is *)
(* violated.                                                               *)
(***************************************************************************)
C8_ParseErrorKeepsState ==
  [][\A p \in providers :
       CycleStep(p) /\ cyc'[p].outcome = "parse_error" =>
         /\ etag'[p] = etag[p]
         /\ last_modified'[p] = last_modified[p]
         /\ last_hash'[p] = last_hash[p]
         /\ seen_ids'[p] = seen_ids[p]
         /\ seen_updates'[p] = seen_updates[p]
         /\ first_run'[p] = first_run[p]
         /\ consecutive_errors'[p] = consecutive_errors[p] + 1]_vars

(***************************************************************************)
(* C9.  A cycle that fails in the fetch emits no incident event, adds      *)
(* exactly 1 to consecutive_errors, leaves every other field of the        *)
(* monitor and the counter unchanged, reports the error and then the retry *)
(* with the new error count and the delay, and sleeps that backoff delay.  *)
(* This holds of every failed fetch for which _backoff_delay returns; the  *)
(* 1024th failed fetch in a row under a max_retries of 1024 or more makes  *)
(* _backoff_delay raise (C13): nothing is reported and nothing is slept,   *)
(* so the statement is violated.                                           *)
(***************************************************************************)
C9_FetchErrorBacksOff ==
  [][\A p \in providers :
       CycleStep(p) /\ cyc'[p].outcome = "fetch_error" =>
         LET c == cyc'[p] IN
         /\ c.events = << >>
         /\ Printed(c, "print_incident") = {}
         /\ Printed(c, "print_historical_header") = {}
         /\ consecutive_errors'[p] = consecutive_errors[p] + 1
         /\ etag'[p] = etag[p]
         /\ last_modified'[p] = last_modified[p]
         /\ last_hash'[p] = last_hash[p]
         /\ seen_ids'[p] = seen_ids[p]
         /\ seen_updates'[p] = seen_updates[p]
         /\ first_run'[p] = first_run[p]
         /\ incident_count' = incident_count
         /\ Len(c.out) = 2
         /\ c.out[1].call = "print_error"
         /\ c.out[2].call = "print_retry"
         /\ c.out[2].attempt = consecutive_errors'[p]
         /\ sleep'[p].kind = "backoff"
         /\ sleep'[p].quarters = c.out[2].wait
         /\ \E j \in Jitters4(settings, consecutive_errors'[p]) :
              sleep'[p].quarters =
                backoff_delay4(settings, consecutive_errors'[p], j)]_vars

\* a second failed fetch in a row, after the monitor has seeded incidents
C9_Witness ==
  \E p \in providers :
    /\ cyc[p].outcome = "fetch_error"
    /\ consecutive_errors[p] = 2
    /\ seen_ids[p] # {}
    /\ pc[p] = "sleeping"
    /\ sleep[p].kind = "backoff"

(***************************************************************************)
(* C10.  A cycle whose response is 304 parses nothing and diffs nothing,   *)
(* emits no historical, new or updated event, leaves seen_ids, the         *)
(* fingerprints, last_body_hash, first_run and the counter unchanged, sets *)
(* consecutive_errors to 0 and sleeps the poll interval.                   *)
(***************************************************************************)
C10_NotModifiedIsQuiet ==
  [][\A p \in providers :
       CycleStep(p) /\ cyc'[p].outcome = "not_modified" =>
         LET c == cyc'[p] IN
         /\ ~c.parsed
         /\ c.incidents = << >>
         /\ c.events = << >>
         /\ Printed(c, "print_incident") = {}
         /\ Printed(c, "print_historical_header") = {}
         /\ seen_ids'[p] = seen_ids[p]
         /\ seen_updates'[p] = seen_updates[p]
         /\ last_hash'[p] = last_hash[p]
         /\ first_run'[p] = first_run[p]
         /\ incident_count' = incident_count
         /\ consecutive_errors'[p] = 0
         /\ sleep'[p] = [kind |-> "interval", quarters |-> 4 * PollInterval]
       ]_vars

\* a 304 answers a conditional request of a monitor that has seeded incidents
C10_Witness ==
  \E p \in providers :
    /\ cyc[p].outcome = "not_modified"
    /\ request[p]["If-None-Match"] # None
    /\ seen_ids[p] # {}
    /\ consecutive_errors[p] = 0
    /\ sleep[p].kind = "interval"

(***************************************************************************)
(* The cycles of C11: a 2xx response whose body hashes to the stored       *)
(* _last_hash.                                                             *)
(***************************************************************************)
UnchangedBodyStep(p) ==
  /\ CycleStep(p)
  /\ cyc'[p].resp.status = 200
  /\ content_hash(cyc'[p].resp.body) = last_hash[p]

(***************************************************************************)
(* C11 as stated.  A cycle that gets a 2xx response whose body hash equals *)
(* the stored hash parses nothing, emits nothing and changes no field of   *)
(* the monitor: etag, last_modified, last_hash, seen_ids, seen_updates and *)
(* first_run are after the cycle what they were before it.                 *)
(* The code stores the ETag and Last-Modified headers of the response      *)
(* (monitor.py 124-127) before it compares the hash (130-134), so a 2xx    *)
(* response with the same body and a new ETag changes etag.                *)
(***************************************************************************)
C11_UnchangedBodyChangesNothing ==
  [][\A p \in providers :
       UnchangedBodyStep(p) =>
         LET c == cyc'[p] IN
         /\ c.outcome = "unchanged"
         /\ ~c.parsed
         /\ c.events = << >>
         /\ Printed(c, "print_incident") = {}
         /\ etag'[p] = etag[p]
         /\ last_modified'[p] = last_modified[p]
         /\ last_hash'[p] = last_hash[p]
         /\ seen_ids'[p] = seen_ids[p]
         /\ seen_updates'[p] = seen_updates[p]
         /\ first_run'[p] = first_run[p]
       ]_vars

(***************************************************************************)
(* C11, amended.  A cycle that gets a 2xx response whose body hash equals  *)
(* the stored hash parses nothing, emits nothing and leaves last_hash,     *)
(* seen_ids, seen_updates, first_run and the incident counter as they      *)
(* were; etag and last_modified take the value of the response's header    *)
(* where the response carries one and are unchanged where it does not.     *)
(* In particular a cycle that repeats the body of the cycle before it      *)
(* emits nothing.                                                          *)
(***************************************************************************)
C11_UnchangedBodyKeepsIncidentState ==
  [][\A p \in providers :
       UnchangedBodyStep(p) =>
         LET c == cyc'[p]
             h == c.resp.headers
         IN
         /\ c.outcome = "unchanged"
         /\ ~c.parsed
         /\ c.events = << >>
         /\ Printed(c, "print_incident") = {}
         /\ etag'[p] = IF h["ETag"] # None THEN h["ETag"] ELSE etag[p]
         /\ last_modified'[p] = IF h["Last-Modified"] # None
                                THEN h["Last-Modified"]
                                ELSE last_modified[p]
         /\ last_hash'[p] = last_hash[p]
         /\ seen_ids'[p] = seen_ids[p]
         /\ seen_updates'[p] = seen_updates[p]
         /\ first_run'[p] = first_run[p]
         /\ incident_count' = incident_count
       ]_vars

\* a monitor that has seeded incidents got the body it had hashed again,
\* this time with an ETag
C11_Witness ==
  \E p \in providers :
    /\ cyc[p].outcome = "unchanged"
    /\ cyc[p].resp.status = 200
    /\ content_hash(cyc[p].resp.body) = last_hash[p]
    /\ cyc[p].resp.headers["ETag"] # None
    /\ etag[p] = cyc[p].resp.headers["ETag"]
    /\ seen_ids[p] # {}
    /\ ~first_run[p]

(***************************************************************************)
(* Vocabulary of C12.                                                      *)
(***************************************************************************)
\* the ordered component names of an incident
NamesOf(inc) == [k \in 1..Len(inc.components) |-> inc.components[k].name]

\* two incidents agree on the fields the fingerprint is made of
SameFingerprintFields(i, j) ==
  /\ i.status = j.status
  /\ i.summary = j.summary
  /\ NamesOf(i) = NamesOf(j)

\* the entries of incs whose id is seen when the diff loop reaches them and
\* whose status, summary and component names are those of the incident the
\* stored fingerprint was taken from: an earlier entry of the document with
\* the id, or else the incident in sto
QuietEntries(seen, sto, incs) ==
  {k \in 1..Len(incs) :
     /\ incs[k].id \in SeenAt(seen, incs, k)
     /\ IF \E j \in 1..(k - 1) : incs[j].id = incs[k].id
        THEN SameFingerprintFields(
               incs[k], LastOf(SubSeq(incs, 1, k - 1), incs[k].id))
        ELSE /\ incs[k].id \in DOMAIN sto
             /\ SameFingerprintFields(incs[k], sto[incs[k].id])}

\* the history variable stored is what its comment says
StoredIsFingerprinted ==
  \A p \in providers :
    /\ DOMAIN stored[p] = DOMAIN seen_updates[p]
    /\ \A id \in DOMAIN stored[p] :
         seen_updates[p][id] = incident_hash(stored[p][id])

(***************************************************************************)
(* C12.  In a diffed cycle, a parsed incident whose id is already seen and *)
(* whose status, summary and ordered component names equal those the       *)
(* stored fingerprint was taken from causes no event, no incident line, no *)
(* change of seen_ids, no change of the stored fingerprint of its id and   *)
(* no increment of the counter, whatever its title, link, updated          *)
(* timestamp and the status of its components are.                         *)
(***************************************************************************)
C12_SameFingerprintIsSilent ==
  [][\A p \in providers :
       CycleStep(p) /\ cyc'[p].outcome = "diff" =>
         LET c == cyc'[p]
             incs == c.incidents
             quiet == QuietEntries(seen_ids[p], stored[p], incs)
             loud == (1..Len(incs)) \ quiet
         IN
         /\ \A k \in quiet : EventsAt(c, k) = {}
         /\ Cardinality(Printed(c, "print_incident")) <= Cardinality(loud)
         /\ incident_count' - incident_count <= Cardinality(loud)
         /\ seen_ids'[p] \ seen_ids[p] \subseteq {incs[k].id : k \in loud}
         /\ \A id \in IdsOf(incs) \ {incs[k].id : k \in loud} :
              seen_updates'[p][id] = seen_updates[p][id]
         /\ loud = {} =>
              /\ c.events = << >>
              /\ seen_ids'[p] = seen_ids[p]
              /\ seen_updates'[p] = seen_updates[p]
              /\ incident_count' = incident_count
       ]_vars

\* a diffed cycle parsed an incident that differs from the one its stored
\* fingerprint was taken from in title, link, updated timestamp and the
\* status of a component, and nothing was emitted or counted
C12_Witness ==
  \E p \in providers :
    /\ cyc[p].outcome = "diff"
    /\ Len(cyc[p].incidents) = 1
    /\ LET inc == cyc[p].incidents[1] IN
       /\ inc.id \in DOMAIN stored[p]
       /\ LET old == stored[p][inc.id] IN
          /\ old.title # inc.title
          /\ old.link # inc.link
          /\ old.updated # inc.updated
          /\ Len(old.components) = 1
          /\ Len(inc.components) = 1
          /\ old.components[1].name = inc.components[1].name
          /\ old.components[1].status # inc.components[1].status
          /\ SameFingerprintFields(inc, old)
    /\ cyc[p].events = << >>
    /\ Printed(cyc[p], "print_incident") = {}
    /\ incident_count = seeded

(***************************************************************************)
(* Vocabulary of C13 and C14: the monitors that have slept a backoff, with *)
(* the value of consecutive_errors _backoff_delay was called with.         *)
(***************************************************************************)
BackedOff == {p \in providers : pc[p] = "sleeping" /\ sleep[p].kind = "backoff"}

(***************************************************************************)
(* C13.  For every consecutive_errors >= 1, every max_retries and every    *)
(* base_backoff, the handler of a failed cycle gets a delay from           *)
(* _backoff_delay; the delay is at most 300 seconds and, where it is below *)
(* 300 seconds, it is at least base and at most 1.5 x base, with           *)
(* base = base_backoff x 2^(min(consecutive_errors, max_retries) - 1).     *)
(* With max_retries >= 1024 and consecutive_errors >= 1024 base_delay is   *)
(* an int of 2 ** 1024 or more, base_delay * 0.5 raises OverflowError and  *)
(* there is no delay (monitor.py 190-191), so this statement is violated.  *)
(***************************************************************************)
C13_DelayWithinBounds ==
  \A p \in providers :
    pc[p] # "handling" =>
      /\ p \in BackedOff
      /\ LET delay == sleep[p].quarters
             base == base_delay4(settings, consecutive_errors[p])
         IN  /\ delay <= 4 * BackoffCap
             /\ delay < 4 * BackoffCap =>
                  /\ base <= delay
                  /\ 2 * delay <= 3 * base

\* the delays _backoff_delay can return for a value of consecutive_errors
DelaysAt(st, errors) ==
  {backoff_delay4(st, errors, j) : j \in Jitters4(st, errors)}

C15_OnlyCancellationTerminates ==
  \A p \in providers :
    /\ pc[p] \in {"created", "fetching", "sleeping", "cancelled"}
    /\ pc[p] = "cancelled" => cancel_req[p]

(***************************************************************************)
(* The part of C15 that the code keeps: a loop that sleeps, after a failed *)
(* cycle or any other, starts another fetch unless it is cancelled.        *)
(***************************************************************************)
SleepLeadsToFetch ==
  \A p \in ProviderNames :
    (pc[p] = "sleeping") ~> (pc[p] \in {"fetching", "cancelled"})

(***************************************************************************)
(* C16.  In every reachable state consecutive_errors is the number of      *)
(* cycles that failed since the last cycle that completed without a fetch  *)
(* or parse failure (every such cycle resets it to 0, every failed cycle   *)
(* adds exactly 1), and the attempt number a cycle reported with its retry *)
(* is that value.                                                          *)
(***************************************************************************)
C16_ErrorsCountFailedCycles ==
  \A p \in providers :
    /\ consecutive_errors[p] = failed_cycles[p]
    /\ \A n \in Printed(cyc[p], "print_retry") :
         cyc[p].out[n].attempt = consecutive_errors[p]

\* two failed cycles in a row after a cycle that seeded incidents, the
\* second reported as attempt 2
C16_Witness ==
  \E p \in providers :
    /\ seen_ids[p] # {}
    /\ failed_cycles[p] = 2
    /\ consecutive_errors[p] = 2
    /\ cyc[p].raised
    /\ \E n \in Printed(cyc[p], "print_retry") : cyc[p].out[n].attempt = 2

(***************************************************************************)
(* C17.  Cancellation is honoured at the next suspension point.  Once      *)
(* shutdown has cancelled the task of a loop, no step starts another cycle *)
(* of the loop, emits an event or an output line for it, or changes a      *)
(* field of its monitor or the counter: the fields stay as the last        *)
(* completed cycle left them, also when the loop was cancelled in the      *)
(* fetch; and a loop cancelled while it is suspended in the fetch or in a  *)
(* sleep reaches Cancelled.                                                *)
(***************************************************************************)
C17_CancelledAtSuspensionPoint ==
  /\ [][\A p \in providers :
          cancel_req[p] =>
            /\ pc'[p] \in {pc[p], "cancelled"}
            /\ etag'[p] = etag[p]
            /\ last_modified'[p] = last_modified[p]
            /\ last_hash'[p] = last_hash[p]
            /\ seen_ids'[p] = seen_ids[p]
            /\ seen_updates'[p] = seen_updates[p]
            /\ consecutive_errors'[p] = consecutive_errors[p]
            /\ first_run'[p] = first_run[p]
            /\ request'[p] = request[p]
            /\ cyc'[p] = cyc[p]
            /\ emitted' = emitted
            /\ incident_count' = incident_count
       ]_vars
  /\ \A p \in ProviderNames :
       (cancel_req[p] /\ pc[p] \in {"fetching", "sleeping"})
         ~> (pc[p] = "cancelled")

\* a loop was cancelled while its conditional request was in flight, after
\* a failed cycle, with the incidents it had seeded before
C17_Witness ==
  \E p \in providers :
    /\ pc[p] = "cancelled"
    /\ cyc[p] = NoCycle
    /\ request[p]["If-None-Match"] # None
    /\ consecutive_errors[p] > 0
    /\ seen_ids[p] # {}

(***************************************************************************)
(* Vocabulary of C18-C20: a step of provider p's loop moves p's task.      *)
(***************************************************************************)
LoopStep(p) == pc'[p] # pc[p]

(***************************************************************************)
(* C18.  With several providers polled together, a step of one provider's  *)
(* loop leaves the monitor, the request and the task of every other        *)
(* provider as they were, and no loop is stopped because of another        *)
(* provider: a task is cancelled only by the operator's shutdown, never    *)
(* because another provider's loop has failed.                             *)
(* The first half holds.  The second does not: when the loop of a provider *)
(* that fails for ever ends with the OverflowError of _backoff_delay       *)
(* (C13), gather re-raises it, run() ends and asyncio.run cancels the      *)
(* loops of the other providers (main.py 68-72, 133).                      *)
(***************************************************************************)
C18_ProvidersAreIndependent ==
  [][\A p \in providers :
       /\ LoopStep(p) =>
            \A q \in providers \ {p} :
              /\ pc'[q] = pc[q]
              /\ sleep'[q] = sleep[q]
              /\ request'[q] = request[q]
              /\ etag'[q] = etag[q]
              /\ last_modified'[q] = last_modified[q]
              /\ last_hash'[q] = last_hash[q]
              /\ seen_ids'[q] = seen_ids[q]
              /\ seen_updates'[q] = seen_updates[q]
              /\ consecutive_errors'[q] = consecutive_errors[q]
              /\ first_run'[q] = first_run[q]
       /\ ~cancel_req[p] /\ cancel_req'[p] =>
            \A q \in providers : pc[q] # "crashed"
    ]_vars

(***************************************************************************)
(* C19.  The poll cycles of one provider never overlap, whatever the other *)
(* providers do: at most one call of _poll of a monitor is running, and a  *)
(* fetch starts only in a step of the provider's own loop, from the task's *)
(* start or from a sleep that follows a cycle that is over.                *)
(***************************************************************************)
C19_CyclesDoNotOverlap ==
  /\ [](\A p \in providers :
          /\ running[p] \in {0, 1}
          /\ running[p] = 1 <=> pc[p] = "fetching")
  /\ [][\A p \in providers :
          running'[p] > running[p] =>
            /\ running[p] = 0
            /\ pc[p] \in {"created", "sleeping"}
            /\ pc[p] = "sleeping" =>
                 /\ cyc[p].outcome # "none"
                 /\ sleep[p].kind \in {"interval", "backoff"}
            /\ pc'[p] = "fetching"
            /\ \A q \in providers \ {p} :
                 pc'[q] = pc[q] /\ running'[q] = running[q]
       ]_vars

\* both providers have a fetch in flight, each after a cycle of its own
\* that seeded incidents
C19_Witness ==
  /\ providers = ProviderNames
  /\ \A p \in providers :
       /\ pc[p] = "fetching"
       /\ running[p] = 1
       /\ seen_ids[p] # {}

RECURSIVE SumOver(_, _)
SumOver(f, S) ==
  IF S = {} THEN 0
  ELSE LET x == CHOOSE x \in S : TRUE IN f[x] + SumOver(f, S \ {x})

(***************************************************************************)
(* C20.  No increment of the shared counter is lost or counted twice,      *)
(* whatever the interleaving of the loops: in every reachable state        *)
(* tracker.incident_count is the number of increments all loops together   *)
(* have performed.                                                         *)
(***************************************************************************)
C20_NoIncrementLost ==
  incident_count = SumOver(performed, ProviderNames)

\* each of the two loops has incremented the counter, the second of them
\* while the other had a fetch in flight
C20_Witness ==
  /\ providers = ProviderNames
  /\ \A p \in providers : performed[p] >= 1
  /\ incident_count >= 3
  /\ \E p \in providers :
       /\ pc[p] = "fetching"
       /\ \E q \in providers \ {p} :
            /\ pc[q] = "sleeping"
            /\ cyc[q].events # << >>

(***************************************************************************)
(* Vocabulary of C21: the incident lines a cycle wrote, in order.          *)
(***************************************************************************)
IncidentLinesOf(c) == SelectSeq(c.out, LAMBDA l : l.call = "print_incident")

(***************************************************************************)
(* C21.  The first-run cycle with show_historical enabled and n parsed     *)
(* incidents displays exactly min(n, max_historical) incidents, the first  *)
(* ones of the document in document order, after a historical header that  *)
(* reports that count; with show_historical disabled it displays none and  *)
(* no header.  A maximum below zero is read as a maximum of zero: no count *)
(* is negative.                                                            *)
(* The code takes the slice incidents[:max_historical] (monitor.py 151),   *)
(* which for a negative max_historical is all but the last -max_historical *)
(* incidents, so under max_historical = -1 a document of two entries gets  *)
(* one incident displayed, more than the configured maximum allows, and    *)
(* this statement is violated.                                             *)
(***************************************************************************)
C21_HistoricalIsFirstMin ==
  \A p \in providers :
    cyc[p].outcome = "first_run" =>
      LET c == cyc[p]
          n == Len(c.incidents)
          lines == IncidentLinesOf(c)
          headers == Printed(c, "print_historical_header")
      IN  IF settings.show_historical
          THEN /\ Len(lines) = Min(n, Max(settings.max_historical, 0))
               /\ \A k \in 1..Len(lines) :
                    /\ k <= n
                    /\ lines[k].inc = c.incidents[k]
               /\ headers = {1}
               /\ c.out[1].count = Len(lines)
          ELSE /\ lines = << >>
               /\ headers = {}

(***************************************************************************)
(* The part of C21 that the code keeps: for max_historical >= 0.           *)
(***************************************************************************)
HistoricalIsFirstMinOfCount ==
  settings.max_historical >= 0 => C21_HistoricalIsFirstMin

\* three incidents parsed under max_historical = 2: two displayed
HistoricalWitness ==
  \E p \in providers :
    /\ cyc[p].outcome = "first_run"
    /\ settings.show_historical
    /\ settings.max_historical = 2
    /\ Len(cyc[p].incidents) = 3
    /\ Len(IncidentLinesOf(cyc[p])) = 2

(***************************************************************************)
(* Vocabulary of C22: the request of provider p is in flight.              *)
(***************************************************************************)
InFlight(p) == pc[p] = "fetching"

(***************************************************************************)
(* C22.  A request carries If-None-Match only when an etag is cached and   *)
(* If-Modified-Since only when a last_modified is cached, each with the    *)
(* value of that header in the most recent 2xx response that carried the   *)
(* header; a 2xx response without ETag or without Last-Modified does not   *)
(* fail the cycle for that and leaves the cached token as it was.          *)
(* The code lets every response with a status below 400 other than 304     *)
(* through (raise_for_status, monitor.py 120) and stores its headers (124- *)
(* 127), so after a response 300 with an ETag the request carries a token  *)
(* that no 2xx response supplied, and this statement is violated.          *)
(***************************************************************************)
C22_TokensFromLast2xx ==
  /\ [](\A p \in providers :
          InFlight(p) =>
            /\ request[p]["If-None-Match"] # None =>
                 /\ etag[p] # None
                 /\ request[p]["If-None-Match"] = etag[p]
                 /\ request[p]["If-None-Match"] = supplied[p].etag
            /\ request[p]["If-Modified-Since"] # None =>
                 /\ last_modified[p] # None
                 /\ request[p]["If-Modified-Since"] = last_modified[p]
                 /\ request[p]["If-Modified-Since"] =
                      supplied[p].last_modified)
  /\ [][\A p \in providers :
          CycleStep(p) /\ Is2xx(cyc'[p].resp.status) =>
            LET h == cyc'[p].resp.headers IN
            /\ cyc'[p].outcome # "fetch_error"
            /\ h["ETag"] = None => etag'[p] = etag[p]
            /\ h["Last-Modified"] = None =>
                 last_modified'[p] = last_modified[p]
       ]_vars

(***************************************************************************)
(* What the code keeps of C22: the same with the responses that            *)
(* raise_for_status lets through in the place of the 2xx responses.  A     *)
(* cached token that is the empty string is not sent.                      *)
(***************************************************************************)
TokensFromLastRead ==
  \A p \in providers :
    InFlight(p) =>
      /\ etag[p] = supplied[p].ok_etag
      /\ last_modified[p] = supplied[p].ok_last_modified
      /\ request[p]["If-None-Match"] =
           IF etag[p] \in {None, ""} THEN None ELSE etag[p]
      /\ request[p]["If-Modified-Since"] =
           IF last_modified[p] \in {None, ""} THEN None
           ELSE last_modified[p]

\* a conditional request carries the tokens of two different 2xx responses
TokensWitness ==
  \E p \in providers :
    /\ InFlight(p)
    /\ request[p]["If-None-Match"] = "e2"
    /\ request[p]["If-Modified-Since"] = "m1"
    /\ supplied[p].etag = "e2"
    /\ cyc[p] = NoCycle
    /\ scenario = "cache"

(***************************************************************************)
(* Vocabulary of C24: a bold "Status: X" marker is "<b>Status:", optional  *)
(* whitespace, a text X of one character or more on one line and "</b>".   *)
(***************************************************************************)
HasStatusMarker(text) == StatusStarts(text) # {}

(***************************************************************************)
(* Vocabulary of C23.                                                      *)
(***************************************************************************)
\* the call asks for the RSS parser
AsksRss(c) == lower(c.feed_type) = Rss

\* the entry elements (Atom) or the item elements (RSS) of the document of
\* a call, in document order
EntriesOf(c) ==
  IF AsksRss(c)
  THEN SelectSeq(c.doc.elements, LAMBDA e : e.tag = "item" /\ e.ns = NoNs)
  ELSE SelectSeq(c.doc.elements, LAMBDA e : e.tag = "entry" /\ e.ns = AtomNs)

\* the id an element gives its incident
IdOf(c, e) ==
  IF e.id # None THEN e.id ELSE IF AsksRss(c) THEN e.link ELSE ""

\* the incidents are those of the elements, one each and in their order
OnePerElement(c, elems, out) ==
  /\ Len(out) = Len(elems)
  /\ \A k \in 1..Len(out) :
       /\ out[k].provider = c.provider_name
       /\ out[k].id = IdOf(c, elems[k])

(***************************************************************************)
(* C23.  For any well-formed feed document parse_feed returns exactly one  *)
(* Incident per entry element (Atom) or item element (RSS), in document    *)
(* order, each with the given provider name; feed_type is compared without *)
(* regard to case, and any value other than rss is parsed as Atom.         *)
(* _safe_parse_datetime catches ValueError and TypeError only              *)
(* (feed_parser.py 88-90), and dateutil raises OverflowError on a date     *)
(* whose year does not fit a C integer: parse_feed then raises and returns *)
(* no list; and the Atom parser looks for entries among the children of    *)
(* the root only (feed_parser.py 113).  This statement is violated.        *)
(***************************************************************************)
C23_OneIncidentPerElement ==
  parser_call.fn = "parse_feed" /\ parser_ret.done =>
    /\ ~parser_ret.raised
    /\ OnePerElement(parser_call, EntriesOf(parser_call), parser_ret.value)

(***************************************************************************)
(* What the code keeps of C23: when no date that is read overflows, one    *)
(* Incident per item element (RSS) or per entry element that is a child of *)
(* the root (Atom), in document order and with the provider name; and      *)
(* otherwise an exception.                                                 *)
(***************************************************************************)
OneIncidentPerElementRead ==
  parser_call.fn = "parse_feed" /\ parser_ret.done =>
    LET c == parser_call
        read == IF ~AsksRss(c) /\ c.doc.wrapper # None THEN << >>
                ELSE EntriesOf(c)
    IN  IF \E k \in 1..Len(read) : read[k].updated = OverflowDate
        THEN parser_ret.raised
        ELSE /\ ~parser_ret.raised
             /\ OnePerElement(c, read, parser_ret.value)

\* two items under the channel, asked for as "RSS": two incidents, the
\* second with the link as its id
FeedWitness ==
  /\ parser_call.fn = "parse_feed"
  /\ parser_call.feed_type = <<"R", "S", "S">>
  /\ parser_call.doc.wrapper = "channel"
  /\ Len(parser_call.doc.elements) = 2
  /\ parser_ret.done
  /\ ~parser_ret.raised
  /\ Len(parser_ret.value) = 2
  /\ parser_ret.value[1].id = "a"
  /\ parser_ret.value[2].id = "l"
  /\ parser_ret.value[1].status = <<"x">>
  /\ parser_ret.value[1].summary = <<"y", " ", "A", " ", "(", "U", ")">>
  /\ parser_ret.value[1].components = <<Component(<<"A">>, <<"U">>)>>

(***************************************************************************)
(* C24.  Status extraction returns "Unknown" if and only if the content    *)
(* has no bold "Status: X" marker; otherwise it returns the text of the    *)
(* first marker, tag-stripped and whitespace-collapsed; the result is      *)
(* never empty and the call never raises.                                  *)
(* A marker whose text is whitespace or tags only, as in "<b>Status: </b>",*)
(* is matched by _STATUS_RE with the space as group and stripped to the    *)
(* empty string (feed_parser.py 43-45), so this statement is violated.     *)
(***************************************************************************)
C24_StatusIsMarkerOrUnknown ==
  parser_call.fn = "parse_status" /\ parser_ret.done =>
    LET text == parser_call.text
        out == parser_ret.value
    IN  /\ ~parser_ret.raised
        /\ out # << >>
        /\ out = Unknown <=> ~HasStatusMarker(text)
        /\ HasStatusMarker(text) =>
             out = strip_html(StatusGroup(text, MinOf(StatusStarts(text))))

(***************************************************************************)
(* What the code keeps of C24: the same without "never empty".  The result *)
(* is empty exactly when the text of the first marker is whitespace and    *)
(* tags only.                                                              *)
(***************************************************************************)
StatusIsMarkerOrUnknownOrEmpty ==
  parser_call.fn = "parse_status" /\ parser_ret.done =>
    LET text == parser_call.text
        out == parser_ret.value
    IN  /\ ~parser_ret.raised
        /\ out = Unknown <=> ~HasStatusMarker(text)
        /\ HasStatusMarker(text) =>
             out = strip_html(StatusGroup(text, MinOf(StatusStarts(text))))

\* the second of two markers is not looked at
StatusWitness ==
  /\ parser_call.fn = "parse_status"
  /\ parser_call.text = StatusOpen \o <<"x">> \o BoldClose \o <<"x">>
  /\ parser_ret.done
  /\ parser_ret.value = <<"x">>

(***************************************************************************)
(* Vocabulary of C25.                                                      *)
(***************************************************************************)
\* the elements of a sequence without the empty ones and without those
\* equal to an earlier one, in first-seen order
RECURSIVE FirstSeen(_, _)
FirstSeen(texts, earlier) ==
  IF texts = << >> THEN << >>
  ELSE IF Head(texts) = << >> \/ Head(texts) \in earlier
  THEN FirstSeen(Tail(texts), earlier)
  ELSE <<Head(texts)>> \o FirstSeen(Tail(texts), earlier \cup {Head(texts)})

\* the stripped texts of the list items of a call
StrippedItems(c) == [k \in 1..Len(c.items) |-> strip_html(c.items[k])]

(***************************************************************************)
(* C25.  Component extraction drops the empty list items and every list    *)
(* item whose stripped text equals that of an earlier item, keeps the      *)
(* others in first-seen order, makes of a text "X (Y)" the component with  *)
(* name X and status Y and of any other text the component with that name  *)
(* and an empty status; the list it returns holds no two components equal  *)
(* by (name, status).                                                      *)
(* The code drops an item when its stripped text has been seen             *)
(* (feed_parser.py 61-64), and two texts that differ can give the same     *)
(* component: "A (U)" and "A(U)" both give (A, U), and so the list holds   *)
(* it twice: this statement is violated.                                   *)
(***************************************************************************)
C25_ComponentsAreDeduplicated ==
  parser_call.fn = "parse_components" /\ parser_ret.done =>
    LET kept == FirstSeen(StrippedItems(parser_call), {})
        out == parser_ret.value
    IN  /\ ~parser_ret.raised
        /\ Len(out) = Len(kept)
        /\ \A k \in 1..Len(out) : out[k] = split_component(kept[k])
        /\ \A j, k \in 1..Len(out) : j # k => out[j] # out[k]

(***************************************************************************)
(* What the code keeps of C25: everything but the last part.               *)
(***************************************************************************)
ComponentsAreFirstSeenItems ==
  parser_call.fn = "parse_components" /\ parser_ret.done =>
    LET kept == FirstSeen(StrippedItems(parser_call), {})
        out == parser_ret.value
    IN  /\ ~parser_ret.raised
        /\ Len(out) = Len(kept)
        /\ \A k \in 1..Len(out) : out[k] = split_component(kept[k])

\* "<i>A</i>" and "A" are one component, with the empty item dropped
ComponentsWitness ==
  /\ parser_call.fn = "parse_components"
  /\ parser_call.items = <<<<"B", " ", "(", "U", ")">>, <<"B">>>>
  /\ parser_ret.done
  /\ parser_ret.value =
       <<Component(<<"B">>, <<"U">>), Component(<<"B">>, << >>)>>

(***************************************************************************)
(* C26.  For every input string, the output of tag-stripping contains no   *)
(* angle bracket, has no leading and no trailing whitespace and has no run *)
(* of more than one whitespace character.                                  *)
(* _HTML_TAG_RE matches a "<", one character or more other than ">" and a  *)
(* ">" (feed_parser.py 32): a ">" with no "<" before it, a "<" with no ">" *)
(* after it and "<>" are not matched and stay in the output, so this       *)
(* statement is violated.                                                  *)
(***************************************************************************)
C26_StrippedTextIsPlain ==
  parser_call.fn = "strip_html" /\ parser_ret.done =>
    LET out == parser_ret.value IN
    /\ ~parser_ret.raised
    /\ \A i \in 1..Len(out) : out[i] \notin {"<", ">"}
    /\ out # << >> =>
         /\ out[1] \notin Whitespace
         /\ out[Len(out)] \notin Whitespace
    /\ \A i \in 1..(Len(out) - 1) :
         ~(out[i] \in Whitespace /\ out[i + 1] \in Whitespace)

(***************************************************************************)
(* What the code keeps of C26: the output holds no tag, that is no "<"     *)
(* followed by one character or more other than ">" and a ">", its only    *)
(* whitespace character is the space, and it has no leading, no trailing   *)
(* and no double space.                                                    *)
(***************************************************************************)
StrippedTextHasNoTag ==
  parser_call.fn = "strip_html" /\ parser_ret.done =>
    LET out == parser_ret.value IN
    /\ ~parser_ret.raised
    /\ \A i \in 1..Len(out) : out[i] = "<" => TagEnd(out, i) = 0
    /\ \A i \in 1..Len(out) : out[i] \in Whitespace => out[i] = " "
    /\ out # << >> => out[1] # " " /\ out[Len(out)] # " "
    /\ \A i \in 1..(Len(out) - 1) : ~(out[i] = " " /\ out[i + 1] = " ")

\* "<a> a" gives "a"
StrippedTextWitness ==
  /\ parser_call.fn = "strip_html"
  /\ parser_call.text = <<"<", "a", ">", " ">>
  /\ parser_ret.done
  /\ parser_ret.value = << >>

(***************************************************************************)
(* C27.  In one poll cycle at most one event, new or updated, is emitted   *)
(* for any incident id, for every parsed list, those in which several      *)
(* entries carry the same id among them.                                   *)
(* The diff loop classifies every entry of the list in turn                *)
(* (monitor.py 163-180): the first entry of an unseen id is reported as    *)
(* new, and an entry of the same id further down whose fingerprint differs *)
(* is reported as an update in the same cycle.  This statement is          *)
(* violated.                                                               *)
(***************************************************************************)
C27_OneEventPerIdPerCycle ==
  \A p \in providers :
    \A j, k \in 1..Len(cyc[p].events) :
      j # k => cyc[p].events[j].id # cyc[p].events[k].id

(***************************************************************************)
(* What the code keeps of C27: in one cycle at most one event per entry of *)
(* the parsed list, the events in the order of the entries, at most one    *)
(* new event per id, and at most one event per id that the list holds      *)
(* once.                                                                   *)
(***************************************************************************)
OneEventPerEntryPerCycle ==
  \A p \in providers :
    LET c == cyc[p] IN
    /\ \A k \in 1..Len(c.events) :
         /\ c.events[k].pos \in 1..Len(c.incidents)
         /\ c.incidents[c.events[k].pos].id = c.events[k].id
    /\ \A j, k \in 1..Len(c.events) : j < k => c.events[j].pos < c.events[k].pos
    /\ \A id \in Ids :
         /\ NewEvents(c, id) <= 1
         /\ Cardinality({k \in 1..Len(c.incidents) : c.incidents[k].id = id}) <= 1
              => Cardinality({k \in 1..Len(c.events) : c.events[k].id = id}) <= 1

\* a cycle with an event for each of two ids
OneEventPerEntryWitness ==
  \E p \in providers :
    /\ cyc[p].outcome = "diff"
    /\ Len(cyc[p].events) = 2
    /\ cyc[p].events[1].id # cyc[p].events[2].id
    /\ cyc[p].events[1].is_new
    /\ ~cyc[p].events[2].is_new

(***************************************************************************)
(* C28.  In every reachable state of a poll loop the keys of the           *)
(* fingerprint map _seen_updates are the ids of _seen_ids; _seen_ids never *)
(* loses an id and _first_run never goes back to true once it is false,    *)
(* whatever successful cycles, failures and cancellations occur.           *)
(***************************************************************************)
C28_SeenStateIsConsistent ==
  /\ [](\A p \in providers : DOMAIN seen_updates[p] = seen_ids[p])
  /\ [][\A p \in providers :
          /\ seen_ids[p] \subseteq seen_ids'[p]
          /\ ~first_run[p] => ~first_run'[p]]_vars

\* a cancelled loop whose last cycle failed, after a first-run cycle that
\* seeded an id and a diffed cycle that added another
C28_Witness ==
  \E p \in providers :
    /\ pc[p] = "cancelled"
    /\ cyc[p].raised
    /\ ~first_run[p]
    /\ Cardinality(seen_ids[p]) = 2
    /\ DOMAIN seen_updates[p] = seen_ids[p]
    /\ \E id \in seen_ids[p] : new_count[p][id] = 1
    /\ \E id \in seen_ids[p] : new_count[p][id] = 0

(***************************************************************************)
(* Vocabulary of C29.                                                      *)
(***************************************************************************)
\* the fingerprint reported for the id of the k-th event of the cycle c
\* before that event: that of the event of the id before it in the cycle,
\* or else the one fp has, of an earlier cycle's event or seeding
ReportedBefore(fp, c, k) ==
  LastHashOf(SubSeq(c.events, 1, k - 1), c.events[k].id,
             fp.reported[c.events[k].id])

(***************************************************************************)
(* C29.  The same content of an incident is never reported twice in a row: *)
(* for any id, the fingerprint of an emitted event differs from the        *)
(* fingerprint of the event or seeding for that id before it; and between  *)
(* cycles the stored fingerprint of every seen id is the fingerprint of    *)
(* the last entry with that id in the most recent diffed document that     *)
(* held the id.                                                            *)
(***************************************************************************)
C29_NeverReportedTwiceInARow ==
  /\ [](\A p \in providers : \A id \in seen_ids[p] :
          last_fp[p].diffed[id] # NoneHash =>
            seen_updates[p][id] = last_fp[p].diffed[id])
  /\ [][\A p \in providers :
          pc[p] = "fetching" =>
            \A k \in 1..Len(cyc'[p].events) :
              cyc'[p].events[k].hash # ReportedBefore(last_fp[p], cyc'[p], k)
       ]_vars

\* a diffed document holds a seeded id twice, first as it is stored and
\* then changed: one update event, and the fingerprint of the last entry
\* is the one stored
C29_Witness ==
  \E p \in providers : \E id \in seen_ids[p] :
    /\ new_count[p][id] = 0
    /\ cyc[p].outcome = "diff"
    /\ Len(cyc[p].incidents) = 2
    /\ \A k \in 1..2 : cyc[p].incidents[k].id = id
    /\ Len(cyc[p].events) = 1
    /\ ~cyc[p].events[1].is_new
    /\ cyc[p].events[1].pos = 2
    /\ last_fp[p].diffed[id] = cyc[p].events[1].hash
    /\ last_fp[p].reported[id] = seen_updates[p][id]

====
